---- MODULE Spec2Model ----
(***************************************************************************)
(* Prediction pipeline of the stock-market application: the forecasters    *)
(* (LSTMPredictor, SimpleMLPredictor and its three registered subclasses,  *)
(* ARIMAPredictor, MovingAveragePredictor and LinearRegressionPredictor of  *)
(* ml_models) and the ModelManager that coordinates them.                  *)
(*                                                                         *)
(* Numbers.  Python floats are modelled in fixed point: a price is an      *)
(* integer number of mills (1/1000 of the currency unit) and round(x, 2)   *)
(* turns mills into cents.  A float that may be NaN or infinite is a       *)
(* record [k |-> "num" | "nan" | "inf", v |-> mills].                      *)
(*                                                                         *)
(* Libraries.  The fitted regressors (scikit-learn, xgboost, TensorFlow,   *)
(* statsmodels) and numpy's random generator are not code of the           *)
(* repository.  What they return during one call is the record env, chosen *)
(* when the call is made: whether a fit raises, what the regressor         *)
(* returns, what the random generator draws.                               *)
(***************************************************************************)
EXTENDS Integers, Sequences, FiniteSets, TLC

VARIABLES
    avail,      \* the *_AVAILABLE module flags, set once at import
    disk,       \* LSTMPredictor.model_dir: the saved model and scaler of the symbol
    models,     \* ModelManager.models: registry name -> forecaster class
    pc,         \* position of the coordinator: "idle", "await", "done"
    rq,         \* arguments of the call in progress (or of the last call)
    env,        \* what the libraries do during that call
    tasks,      \* get_all_predictions/backtest_all_models: the list `tasks`
    co,         \* state of each coroutine object in `tasks`
    results,    \* the dict `results` being filled by the await loop
    ret,        \* outcome of the last finished call (returned or raised)
    invoked,    \* forecasters whose predict/backtest ran in this call
    scaler,     \* self.scaler of each forecaster instance (what it was fit on)
    svc         \* state of the application service under study (paper trading,
                \* XP, websocket manager); NoService while forecasting

vars == <<avail, disk, models, pc, rq, env, tasks, co, results, ret, invoked, scaler, svc>>

NoService == [service |-> "none"]

----------------------------------------------------------------------------
(* Bounds of the model *)

MaxDays == 3          \* prediction_days and test_days range over 1..MaxDays
Slack == 1            \* histories are up to Slack rows longer than a threshold

----------------------------------------------------------------------------
(* Constructor defaults and literals of the source *)

sequence_length == 60     \* LSTMPredictor.__init__
lookback_days == 30       \* SimpleMLPredictor/MLEnsemblePredictor/ProperMLPredictor
short_window == 10        \* MovingAveragePredictor.__init__
long_window == 30
ARIMA_MIN == 60           \* ARIMAPredictor.predict: len(historical_data) < 60

----------------------------------------------------------------------------
(* Arithmetic helpers *)

Max(a, b) == IF a >= b THEN a ELSE b
Min(a, b) == IF a <= b THEN a ELSE b
Abs(a) == IF a >= 0 THEN a ELSE -a

RECURSIVE IsqrtBetween(_, _, _)
IsqrtBetween(v, lo, hi) ==
    IF lo >= hi THEN lo
    ELSE LET mid == (lo + hi + 1) \div 2
         IN  IF mid * mid <= v THEN IsqrtBetween(v, mid, hi)
                               ELSE IsqrtBetween(v, lo, mid - 1)

\* floor of the square root (np.sqrt on the fixed-point grid)
Isqrt(v) == IF v <= 0 THEN 0 ELSE IsqrtBetween(v, 0, 46340)

\* sqrt(num/den) in thousandths
SqrtMilli(num, den) == Isqrt((num * 1000000) \div den)

\* the sequence with every element evaluated once
Force(s) == s \o <<>>

\* `v` bound to a name and evaluated once: x = v; Op(x)
With(v, Op(_)) == Op(v)

RECURSIVE SumRange(_, _, _)
SumRange(s, lo, hi) ==
    IF lo > hi THEN 0
    ELSE IF lo = hi THEN s[lo]
    ELSE LET mid == (lo + hi) \div 2
         IN  SumRange(s, lo, mid) + SumRange(s, mid + 1, hi)

\* sum(s)
SumSeq(s) == SumRange(s, 1, Len(s))

\* s.tail(k) / s[-k:]
TailN(s, k) == IF Len(s) <= k THEN s ELSE SubSeq(s, Len(s) - k + 1, Len(s))

\* np.diff
Diff(s) == Force([i \in 1..(Len(s) - 1) |-> s[i + 1] - s[i]])

MeanSeq(s) == SumSeq(s) \div Len(s)

\* standard deviation with `ddof` delta degrees of freedom:
\* pandas Series.std() is ddof = 1, np.std is ddof = 0
Std(s, ddof) ==
    LET m == MeanSeq(s)
        sq == [i \in 1..Len(s) |-> (s[i] - m) * (s[i] - m)]
    IN  Isqrt(SumSeq(sq) \div (Len(s) - ddof))

\* np.polyfit(range(len(s)), s, 1)[0]: least-squares slope over x = 0..len-1
PolyfitSlope(s) ==
    LET n == Len(s)
        base == s[n]
        sx == SumSeq([i \in 1..n |-> i - 1])
        sxx == SumSeq([i \in 1..n |-> (i - 1) * (i - 1)])
        sy == SumSeq([i \in 1..n |-> s[i] - base])
        sxy == SumSeq([i \in 1..n |-> (i - 1) * (s[i] - base)])
    IN  (n * sxy - sx * sy) \div (n * sxx - sx * sx)

\* round(x, 2): mills to cents, ties to the even cent
Round2(x) ==
    LET q == x \div 10
        r == x % 10
    IN  IF r < 5 THEN q
        ELSE IF r > 5 THEN q + 1
        ELSE IF q % 2 = 0 THEN q ELSE q + 1

Num(v) == [k |-> "num", v |-> v]
NaN == [k |-> "nan", v |-> 0]
Inf == [k |-> "inf", v |-> 0]

\* np.isnan(p) or np.isinf(p) or p <= 0
Invalid(p) == p.k # "num" \/ p.v <= 0

----------------------------------------------------------------------------
(* Historical data.  A request carries a list of rows; the model draws it   *)
(* from a family described by a record h:                                  *)
(*   n      number of rows                                                 *)
(*   shape  the closes by date (position j = 1..n in date order)           *)
(*   order  order of the rows in the list handed to the forecaster         *)
(*   cols   columns of a row: "ohlc", "close" (date and close), "none"     *)
(*   at, by closes at date positions >= at are raised by `by` mills        *)

Date(j) == [day |-> j, hour |-> (j * 5) % 24]

ShapeClose(shape, n, j) ==
    CASE shape = "up"    -> 15000 - 20 * (n - j)
      [] shape = "down"  -> 150005 + 150 * (n - j)
      [] shape = "saw"   -> 15000 + ((j % 3) * 7) - 4 + (j % 2) * 3
      [] shape = "crash" -> IF n - j <= 4 THEN 500 + 500 * (n - j) ELSE 3000
      [] OTHER           -> 15000

CloseAt(h, j) ==
    ShapeClose(h.shape, h.n, j) + (IF h.at > 0 /\ j >= h.at THEN h.by ELSE 0)

\* the row of date position j
RowAt(h, j) ==
    CASE h.cols = "ohlc"  -> [date |-> Date(j), open |-> CloseAt(h, j) - 10,
                              high |-> CloseAt(h, j) + 30, low |-> CloseAt(h, j) - 20,
                              close |-> CloseAt(h, j)]
      [] h.cols = "close" -> [date |-> Date(j), close |-> CloseAt(h, j)]
      [] OTHER            -> [date |-> Date(j)]

\* the list historical_data, in the order the caller supplies it
Rows(h) ==
    Force([i \in 1..h.n |->
        CASE h.order = "asc"  -> RowAt(h, i)
          [] h.order = "desc" -> RowAt(h, h.n + 1 - i)
          [] OTHER            -> RowAt(h, ((i + 1) % h.n) + 1)])

Hist(n, shape, order, cols) ==
    [n |-> n, shape |-> shape, order |-> order, cols |-> cols, at |-> 0, by |-> 0]

----------------------------------------------------------------------------
(* pandas: to_datetime, sort_values('date'), strftime, timedelta *)

DateLess(a, b) == a.day < b.day \/ (a.day = b.day /\ a.hour < b.hour)

\* the rows left in the order the caller supplied them
SortByDate_unsorted(rows) == rows

\* df.sort_values('date').reset_index(drop=True): the rows by ascending date
\* (the dates of a history are distinct)
SortByDate(rows) ==
    LET n == Len(rows)
    IN  IF \A i \in 1..(n - 1) : DateLess(rows[i].date, rows[i + 1].date)
        THEN rows
        ELSE LET rank == Force([i \in 1..n |->
                     1 + Cardinality({k \in 1..n : DateLess(rows[k].date, rows[i].date)})])
             IN  Force([p \in 1..n |-> rows[CHOOSE i \in 1..n : rank[i] = p]])

\* last_date + timedelta(days=k)
DatePlus(d, k) == [day |-> d.day + k, hour |-> d.hour]

\* d.strftime("%Y-%m-%d"): the calendar day, the time of day dropped
Strftime(d) == d.day

\* df[col] exists
HasCol(df, col) == \A i \in 1..Len(df) : col \in DOMAIN df[i]
HasClose(df) == HasCol(df, "close")

\* s[:k] and s[k:] of a Python sequence, for any integer k
PyHead(s, k) ==
    IF k >= 0 THEN SubSeq(s, 1, Min(k, Len(s))) ELSE SubSeq(s, 1, Max(0, Len(s) + k))
PyFrom(s, k) ==
    IF k >= 0 THEN SubSeq(s, Min(k, Len(s)) + 1, Len(s))
    ELSE SubSeq(s, Max(0, Len(s) + k) + 1, Len(s))

Closes(df) == Force([i \in 1..Len(df) |-> df[i].close])

----------------------------------------------------------------------------
(* Outcomes of a call, results and exceptions *)

Returned(v) == [raised |-> FALSE, value |-> v]
Raised(exc, msg) == [raised |-> TRUE, exc |-> exc, msg |-> msg]

\* str(e): the text of a message and the value formatted into it
Msg(text, arg) == [text |-> text, arg |-> arg]

NeedAtLeast(m, what) == Msg(what, ToString(m))
KeyError(col) == Raised("KeyError", Msg(col, ""))
KeyErrorClose == KeyError("'close'")
\* the exception a library raises out of fit(): str(e) is whatever message
\* the library gave it, possibly none
FitError(e) == Raised("LibraryError", Msg(e.msg, ""))

\* one element of `predictions`
Point(date, pred, lower, upper) ==
    [date |-> Strftime(date),
     predicted_price |-> Round2(pred),
     lower_bound |-> Round2(lower),
     upper_bound |-> Round2(upper)]

\* the usual element: bounds pred -/+ margin, the lower one floored at 0
MarginPoint(date, pred, margin) ==
    Point(date, pred, Max(0, pred - margin), pred + margin)

Completed(label, points, meta) ==
    [model |-> label, predictions |-> points, metadata |-> meta, status |-> "completed"]

\* the dict every `except Exception as e` of a predict returns
FailedPrediction(label, msg) ==
    [model |-> label, predictions |-> <<>>, metadata |-> [error |-> msg], status |-> "failed"]

\* the dict every `except Exception as e` of a backtest returns
FailedBacktest(label, msg) ==
    [model |-> label, error |-> msg, status |-> "failed"]

\* one element of predictions_vs_actual
BacktestEntry(date, predicted, actual) ==
    [date |-> Strftime(date),
     predicted |-> Round2(predicted),
     actual |-> Round2(actual),
     error |-> Round2(Abs(predicted - actual))]

\* round(np.mean(np.diff(predictions) > 0 == np.diff(actual) > 0), 3), in
\* thousandths; 0.5 when there is a single prediction
DirectionAccuracyDiff(predictions, actual) ==
    IF Len(predictions) > 1
    THEN LET dp == Diff(predictions)
             da == Diff(actual)
             hits == Cardinality({i \in 1..Len(dp) : (dp[i] > 0) = (da[i] > 0)})
         IN  (2000 * hits + Len(dp)) \div (2 * Len(dp))
    ELSE 500

\* np.mean(np.abs(actual - predictions))
MeanAbsoluteError(predictions, actual) ==
    MeanSeq([i \in 1..Len(predictions) |-> Abs(actual[i] - predictions[i])])

\* max(lo, min(hi, x)) of an accuracy score, in thousandths
ClampAccuracy(lo, hi, x) == Max(lo, Min(hi, x))

\* 1 - mean_absolute_error(actual, predicted) / np.mean(actual), in thousandths
OneMinusRelativeMAE(actual, predicted) ==
    1000 - (MeanAbsoluteError(predicted, actual) * 1000) \div MeanSeq(actual)

\* sklearn.metrics.r2_score in thousandths, the deviations taken in cents
\* (a constant `actual` scores 1.0 when matched exactly and 0.0 otherwise)
R2Score(actual, predicted) ==
    LET m == MeanSeq(actual)
        ss_res == SumSeq([t \in 1..Len(actual) |->
                      ((actual[t] - predicted[t]) \div 10) * ((actual[t] - predicted[t]) \div 10)])
        ss_tot == SumSeq([t \in 1..Len(actual) |->
                      ((actual[t] - m) \div 10) * ((actual[t] - m) \div 10)])
    IN  IF ss_tot = 0 THEN (IF ss_res = 0 THEN 1000 ELSE 0)
        ELSE 1000 - (ss_res * 1000) \div ss_tot

\* the percentage errors taken with their sign
MeanAbsolutePercentageError_signed(predictions, actual) ==
    MeanSeq([i \in 1..Len(predictions) |->
        ((actual[i] - predictions[i]) * 10000) \div actual[i]])

\* round(np.mean(np.abs((actual - predictions) / actual)) * 100, 2), in
\* hundredths of a percent (the closes of a history are positive)
MeanAbsolutePercentageError(predictions, actual) ==
    MeanSeq([i \in 1..Len(predictions) |->
        (Abs(actual[i] - predictions[i]) * 10000) \div Abs(actual[i])])

CompletedBacktest(label, test_days, entries, metrics) ==
    [model |-> label, test_period |-> test_days, metrics |-> metrics,
     predictions_vs_actual |-> entries, status |-> "completed"]

----------------------------------------------------------------------------
(* Library behaviour during one call *)

\* np.random.normal(0, sigma), k-th draw of the call
NoiseAt(e, k, sigma) ==
    CASE e.noise = "zero" -> 0
      [] e.noise = "pos"  -> sigma
      [] e.noise = "neg"  -> -sigma
      [] OTHER            -> IF k % 2 = 1 THEN -2 * sigma ELSE 2 * sigma

\* what the fitted regressor returns at horizon step k (1-based), where
\* `fitted` is the value the stand-in regressor computes from its input
RawAt(e, k, fitted) ==
    CASE e.raw = "model"   -> Num(fitted)
      [] e.raw = "nan"     -> NaN
      [] e.raw = "inf"     -> Inf
      [] e.raw = "zero"    -> Num(0)
      [] e.raw = "neg"     -> Num(-500)
      [] e.raw = "falling" -> Num(fitted - 1500 * k)
      [] e.raw = "first"   -> Num(fitted + (IF k = 1 THEN 1500 ELSE 0))
      [] OTHER             -> Num(fitted + 1500 * k)

NoiseKinds == {"zero", "pos", "neg", "alt"}
RawKinds == {"model", "nan", "inf", "zero", "neg", "falling", "rising"}
NumericRawKinds == {"model", "neg", "falling", "rising"}

----------------------------------------------------------------------------
(* try/except of the forecasters *)

\* predict: try: <body>  except Exception as e: return {..., "status": "failed"}
CatchPredict(o, label) ==
    IF o.raised THEN Returned(FailedPrediction(label, o.msg)) ELSE o

\* backtest: try: <body>  except Exception as e: return {..., "status": "failed"}
CatchBacktest(o, label) ==
    IF o.raised THEN Returned(FailedBacktest(label, o.msg)) ELSE o

----------------------------------------------------------------------------
(* LSTMPredictor *)

\* MinMaxScaler(feature_range=(0, 1)).fit: the data minimum and range
\* (a zero range is replaced by 1, as scikit-learn does)
MinMaxScaler_fit(prices) ==
    LET lo == CHOOSE v \in {prices[i] : i \in 1..Len(prices)} :
                  \A i \in 1..Len(prices) : v <= prices[i]
        hi == CHOOSE v \in {prices[i] : i \in 1..Len(prices)} :
                  \A i \in 1..Len(prices) : v >= prices[i]
    IN  [n |-> Len(prices), min |-> lo, range |-> IF hi = lo THEN 1000 ELSE hi - lo]

\* scaler.transform: price to thousandths of the fitted range
MinMaxScaler_transform(sc, price) == ((price - sc.min) * 1000) \div sc.range

\* scaler.inverse_transform
MinMaxScaler_inverse_transform(sc, scaled) == sc.min + (scaled * sc.range) \div 1000

\* the files {symbol}_lstm_model.h5 and {symbol}_scaler.pkl of model_dir
NoFile == [exists |-> FALSE, bias |-> 0, scaler |-> [n |-> 0, min |-> 0, range |-> 1000]]
SavedFile(model, sc) == [exists |-> TRUE, bias |-> model.bias, scaler |-> sc]

\* _build_model + model.fit: the trained network; and load_model(model_path)
LSTM_build_and_fit(X) == [bias |-> 0]
LSTM_load_model(dsk) == [bias |-> dsk.bias]

\* model.predict(pred_input)[0][0]: the network's output for a window, in
\* scaled space.  The network is library code: a function of model and window.
LSTMNetwork(model, window) == MeanSeq(TailN(window, 5)) + model.bias

\* accuracy_score of predict: the network on the last 10 training windows
\* against their targets, both mapped back through self.scaler
LSTM_accuracy_score(model, sc, scaled_data) ==
    LET n == Len(scaled_data)
        recent_predictions == Force([t \in 1..10 |->
            MinMaxScaler_inverse_transform(sc,
                LSTMNetwork(model, SubSeq(scaled_data, n - 10 + t - sequence_length,
                                          n - 11 + t)))])
        recent_actual == Force([t \in 1..10 |->
            MinMaxScaler_inverse_transform(sc, scaled_data[n - 10 + t])])
    IN  ClampAccuracy(600, 950, OneMinusRelativeMAE(recent_actual, recent_predictions))

\* _fallback_linear_prediction: linear trend of the last 30 closes plus noise
LSTMPredictor_fallback_linear_prediction(hd, days, e) ==
    LET df == SortByDate(hd)
        recent_prices == TailN(Closes(df), 30)
        trend == PolyfitSlope(recent_prices)
        last_price == recent_prices[Len(recent_prices)]
        volatility == (Std(recent_prices, 0) * 2) \div 100
    IN  [i \in 1..days |->
            Max(0, last_price + trend * i + NoiseAt(e, i, volatility))]

\* the forecast loop shared by predict and backtest: each scaled prediction
\* is rolled into current_sequence; returns the scaled predictions
RECURSIVE LSTMForecast(_, _, _, _, _, _)
LSTMForecast(model, current_sequence, k, days, e, acc) ==
    IF k > days THEN acc
    ELSE LET pred_scaled == RawAt(e, k, LSTMNetwork(model, current_sequence)).v
         IN  LSTMForecast(model, Append(Tail(current_sequence), pred_scaled),
                          k + 1, days, e, Append(acc, pred_scaled))

\* predict up to its except clause: the outcome, self.scaler and the files
LSTMPredictor_predict_run(self_scaler, dsk, hd, days, e) ==
    IF Len(hd) < sequence_length + 30
    THEN [out |-> Raised("ValueError", NeedAtLeast(sequence_length + 30,
                      "Need at least {} days of historical data")),
          scaler |-> self_scaler, disk |-> dsk]
    ELSE
    LET df == SortByDate(hd)
        last_date == df[Len(df)].date
    IN  IF ~HasClose(df)
        THEN [out |-> KeyErrorClose, scaler |-> self_scaler, disk |-> dsk]
        ELSE
        LET closes == Closes(df)
            volatility == Std(TailN(closes, 30), 1)
        IN  IF ~avail.tensorflow
            THEN LET predicted_prices == LSTMPredictor_fallback_linear_prediction(hd, days, e)
                     points == [k \in 1..days |->
                         MarginPoint(DatePlus(last_date, k), predicted_prices[k],
                             Max((volatility * 196) \div 100, (predicted_prices[k] * 3) \div 100))]
                 IN  [out |-> Returned(Completed("LSTM (Fallback)", points,
                                 [fallback_mode |-> TRUE, data_points_used |-> Len(df),
                                  last_price |-> Round2(closes[Len(closes)])])),
                      scaler |-> self_scaler, disk |-> dsk]
            ELSE
            LET fitted_scaler == MinMaxScaler_fit(closes)
                scaled_data == Force([i \in 1..Len(closes) |->
                                   MinMaxScaler_transform(fitted_scaler, closes[i])])
            IN  IF ~dsk.exists /\ "LSTM" \in e.fit
                THEN [out |-> FitError(e), scaler |-> fitted_scaler, disk |-> dsk]
                ELSE
                LET model == IF dsk.exists THEN LSTM_load_model(dsk)
                             ELSE LSTM_build_and_fit(scaled_data)
                    scaler2 == IF dsk.exists THEN dsk.scaler ELSE fitted_scaler
                    preds == LSTMForecast(model, TailN(scaled_data, sequence_length),
                                          1, days, e, <<>>)
                    points == [k \in 1..days |->
                        LET pred_price == MinMaxScaler_inverse_transform(scaler2, preds[k])
                        IN  MarginPoint(DatePlus(last_date, k), pred_price,
                                Max((volatility * 196 * SqrtMilli(k, 30)) \div 100000,
                                    (pred_price * 25) \div 1000))]
                IN  [out |-> Returned(Completed("LSTM", points,
                                [accuracy_score |-> LSTM_accuracy_score(model, scaler2, scaled_data),
                                 data_points_used |-> Len(df),
                                 last_price |-> Round2(closes[Len(closes)])])),
                     scaler |-> scaler2,
                     disk |-> IF dsk.exists THEN dsk ELSE SavedFile(model, fitted_scaler)]

LSTMPredictor_predict(self_scaler, dsk, hd, days, e) ==
    CatchPredict(LSTMPredictor_predict_run(self_scaler, dsk, hd, days, e).out, "LSTM")

\* train_data = df[:-test_days]
LSTM_backtest_train(df, test_days) == PyHead(df, 0 - test_days)

\* backtest up to its except clause: the outcome and self.scaler
LSTMPredictor_backtest_run(self_scaler, hd, test_days, e) ==
    IF Len(hd) < sequence_length + test_days + 30
    THEN [out |-> Raised("ValueError", NeedAtLeast(sequence_length + test_days + 30,
                      "Need at least {} days for backtesting")),
          scaler |-> self_scaler]
    ELSE
    LET df == SortByDate(hd)
        train_data == LSTM_backtest_train(df, test_days)
        test_data == PyFrom(df, 0 - test_days)
    IN  IF ~HasClose(df) THEN [out |-> KeyErrorClose, scaler |-> self_scaler]
        ELSE
        LET train_prices == Closes(train_data)
            actual_values == Closes(test_data)
            fitted_scaler == MinMaxScaler_fit(train_prices)
            finish(predictions, sc) ==
                [out |-> Returned(CompletedBacktest("LSTM", test_days,
                        [i \in 1..Len(predictions) |->
                            BacktestEntry(test_data[i].date, predictions[i], actual_values[i])],
                        [mae |-> MeanAbsoluteError(predictions, actual_values),
                         mape |-> MeanAbsolutePercentageError(predictions, actual_values),
                         direction_accuracy |->
                            DirectionAccuracyDiff(predictions, actual_values)])),
                 scaler |-> sc]
        IN  IF ~avail.tensorflow
            THEN LET recent_trend == PolyfitSlope(TailN(train_prices, 30))
                     last == train_prices[Len(train_prices)]
                 IN  finish([k \in 1..Len(test_data) |-> Max(0, last + recent_trend * k)],
                            self_scaler)
            ELSE IF "LSTM" \in e.fit THEN [out |-> FitError(e), scaler |-> fitted_scaler]
            ELSE LET scaled_data == Force([i \in 1..Len(train_prices) |->
                                        MinMaxScaler_transform(fitted_scaler, train_prices[i])])
                     model == LSTM_build_and_fit(scaled_data)
                     preds == LSTMForecast(model, TailN(scaled_data, sequence_length),
                                           1, Len(test_data), e, <<>>)
                 IN  finish([k \in 1..Len(test_data) |->
                                MinMaxScaler_inverse_transform(fitted_scaler, preds[k])],
                            fitted_scaler)

LSTMPredictor_backtest(self_scaler, hd, test_days, e) ==
    CatchBacktest(LSTMPredictor_backtest_run(self_scaler, hd, test_days, e).out, "LSTM")

----------------------------------------------------------------------------
(* SimpleMLPredictor and its subclasses SimpleLinearRegressionPredictor,   *)
(* SimpleRandomForestPredictor, SimpleXGBoostPredictor                     *)

\* _create_simple_features, row i (1-based) of the frame: every column looks
\* at row i and at earlier rows only (pct_change, diff, rolling, shift(+lag)).
\* Two of the columns stand for the feature vector: sma_5 and close_lag_1.
SimpleML_create_simple_features(closes, i) ==
    [sma_5 |-> MeanSeq(SubSeq(closes, i - 4, i)),
     lag_1 |-> closes[i - 1]]

\* _prepare_training_data: for i in range(lookback_days, len(df)) the
\* features of row i itself and the close of row i
SimpleML_prepare_training_data(closes) ==
    LET m == Max(0, Len(closes) - lookback_days)
    IN  [X |-> Force([t \in 1..m |-> SimpleML_create_simple_features(closes, lookback_days + t)]),
         y |-> Force([t \in 1..m |-> closes[lookback_days + t]])]

\* StandardScaler().fit: per-column mean and standard deviation
\* (a zero deviation is replaced by 1, as scikit-learn does)
StandardScaler_fit(X) ==
    LET a == Force([t \in 1..Len(X) |-> X[t].sma_5])
        b == Force([t \in 1..Len(X) |-> X[t].lag_1])
        sa == Std(a, 0)
        sb == Std(b, 0)
    IN  [n |-> Len(X),
         mean |-> [sma_5 |-> MeanSeq(a), lag_1 |-> MeanSeq(b)],
         scale |-> [sma_5 |-> IF sa = 0 THEN 1000 ELSE sa,
                    lag_1 |-> IF sb = 0 THEN 1000 ELSE sb]]

\* scaler.transform of one feature vector, in thousandths
StandardScaler_transform(sc, x) ==
    [sma_5 |-> ((x.sma_5 - sc.mean.sma_5) * 1000) \div sc.scale.sma_5,
     lag_1 |-> ((x.lag_1 - sc.mean.lag_1) * 1000) \div sc.scale.lag_1]

\* _train_model: model.fit(X, y).  The regressor is library code; the fitted
\* model is a function of the training set only.
SimpleML_train_model(X_scaled, y) ==
    [intercept |-> MeanSeq(y), coef |-> Std(y, 0)]

\* model.predict(features_scaled)[0] of the fitted regressor
Regressor_predict(model, z) ==
    model.intercept + (model.coef * (z.sma_5 + z.lag_1)) \div 2000

\* model.fit raises on some draws of the random generator
SimpleML_fit_raises_on_draw(name, e) == name \in e.fit \/ e.noise = "alt"

\* a subclass's model.fit raises when the library does
SimpleML_fit_raises(name, e) == name \in e.fit

\* accuracy of predict: r2 of the model on its last 10 training samples,
\* clamped, when there are more than 10 samples; 0.75 otherwise
SimpleML_accuracy(model, sc, td) ==
    IF Len(td.X) > 10
    THEN LET train_predictions == Force([t \in 1..10 |->
                 Regressor_predict(model,
                     StandardScaler_transform(sc, td.X[Len(td.X) - 10 + t]))])
             r2 == R2Score(TailN(td.y, 10), train_predictions)
         IN  ClampAccuracy(500, 950, IF r2 > 0 THEN r2 ELSE 500)
    ELSE 750

SimpleMLPredictor_predict_body(name, hd, days, e) ==
    LET df == SortByDate(hd)
    IN  IF ~HasCol(df, "close") THEN KeyErrorClose
        ELSE IF ~HasCol(df, "high") THEN KeyError("'high'")
        ELSE
        LET closes == Closes(df)
            n == Len(closes)
            td == SimpleML_prepare_training_data(closes)
        IN  IF Len(td.X) = 0
            THEN Raised("ValueError", Msg("Not enough data for training", ""))
            ELSE IF SimpleML_fit_raises(name, e) THEN FitError(e)
            ELSE
            LET sc == StandardScaler_fit(td.X)
                model == SimpleML_train_model(td.X, td.y)
                last_date == df[n].date
                last_features_scaled ==
                    StandardScaler_transform(sc, SimpleML_create_simple_features(closes, n))
                current_price == closes[n]
                fitted == Regressor_predict(model, last_features_scaled)
                recent_trend == MeanSeq(Diff(TailN(closes, 5)))
                volatility == Std(TailN(closes, 20), 1)
                points == [k \in 1..days |->
                    LET raw == RawAt(e, k, fitted)
                        pred_price == IF Invalid(raw) THEN current_price + recent_trend * k
                                      ELSE raw.v
                        confidence_margin == (volatility * 196 * SqrtMilli(k, 1)) \div 100000
                    IN  MarginPoint(DatePlus(last_date, k), pred_price, confidence_margin)]
            IN  Returned(Completed(name, points,
                    [training_samples |-> Len(td.X),
                     accuracy_score |-> SimpleML_accuracy(model, sc, td),
                     last_price |-> Round2(closes[n])]))

SimpleMLPredictor_predict(name, hd, days, e) ==
    CatchPredict(SimpleMLPredictor_predict_body(name, hd, days, e), name)

\* df_features.iloc[-1]: the features of held-out day i itself
SimpleML_backtest_feature_row_last(split_idx, i) == split_idx + i

\* the index of the row whose features predict held-out day i, in the
\* frame train_df + test_df[:i+1]: df_features.iloc[-2]
SimpleML_backtest_feature_row(split_idx, i) == split_idx + i - 1

\* the scaler and the model fitted on the whole frame
SimpleML_backtest_train_all(df, test_days) == df

\* the rows the scaler and the model are fitted on: df[:split_idx]
SimpleML_backtest_train(df, test_days) == PyHead(df, Len(df) - test_days)

SimpleMLPredictor_backtest_body(name, hd, test_days, e) ==
    LET df == SortByDate(hd)
        split_idx == Len(df) - test_days
        train_df == SimpleML_backtest_train(df, test_days)
        test_df == PyFrom(df, split_idx)
    IN  IF ~HasCol(df, "close") THEN KeyErrorClose
        ELSE IF ~HasCol(df, "high") THEN KeyError("'high'")
        ELSE
        LET closes == Closes(df)
            td == SimpleML_prepare_training_data(Closes(train_df))
        IN  IF Len(td.X) = 0
            THEN Raised("ValueError", Msg("Expected 2D array, got 1D array instead", ""))
            ELSE IF SimpleML_fit_raises(name, e) THEN FitError(e)
            ELSE
            LET sc == StandardScaler_fit(td.X)
                model == SimpleML_train_model(td.X, td.y)
                raws == [i \in 1..Len(test_df) |->
                    RawAt(e, i, Regressor_predict(model,
                        StandardScaler_transform(sc,
                            SimpleML_create_simple_features(closes,
                                SimpleML_backtest_feature_row(Len(train_df), i)))))]
                predictions == [i \in 1..Len(test_df) |-> raws[i].v]
                actual_values == Closes(test_df)
            IN  IF \E i \in 1..Len(test_df) : raws[i].k # "num"
                THEN Raised("ValueError", Msg("Input contains NaN or infinity", ""))
                ELSE Returned(CompletedBacktest(name, test_days,
                        [i \in 1..Len(predictions) |->
                            BacktestEntry(test_df[i].date, predictions[i], actual_values[i])],
                        [mae |-> MeanAbsoluteError(predictions, actual_values),
                         mape |-> MeanAbsolutePercentageError(predictions, actual_values),
                         direction_accuracy |->
                            DirectionAccuracyDiff(predictions, actual_values)]))

SimpleMLPredictor_backtest(name, hd, test_days, e) ==
    CatchBacktest(SimpleMLPredictor_backtest_body(name, hd, test_days, e), name)

\* self.scaler after predict: fit_transform(X) is reached once X is non-empty
SimpleML_scaler_after_predict(prev, hd) ==
    LET df == SortByDate(hd)
    IN  IF ~HasCol(df, "close") \/ ~HasCol(df, "high") THEN prev
        ELSE LET td == SimpleML_prepare_training_data(Closes(df))
             IN  IF Len(td.X) = 0 THEN prev ELSE StandardScaler_fit(td.X)

\* self.scaler after backtest: fit_transform(X_train) on the training rows
SimpleML_scaler_after_backtest(prev, hd, test_days) ==
    LET df == SortByDate(hd)
    IN  IF ~HasCol(df, "close") \/ ~HasCol(df, "high") THEN prev
        ELSE LET td == SimpleML_prepare_training_data(
                           Closes(SimpleML_backtest_train(df, test_days)))
             IN  IF Len(td.X) = 0 THEN prev ELSE StandardScaler_fit(td.X)

----------------------------------------------------------------------------
(* ARIMAPredictor *)

\* value at position x (0-based) of the least-squares line through s
PolyfitLineAt(s, x) ==
    MeanSeq(s) + (PolyfitSlope(s) * (2 * x - (Len(s) - 1))) \div 2

\* _fallback_trend_prediction: np.polyfit(x, recent_prices, 2) evaluated past
\* the end, plus noise.  The fit is library code; its curvature term is taken
\* as 0 here.
ARIMAPredictor_fallback_trend_prediction(hd, days, e) ==
    LET df == SortByDate(hd)
        recent_prices == TailN(Closes(df), 60)
        last_x == Len(recent_prices) - 1
        volatility == Std(recent_prices, 0) \div 100
    IN  [i \in 1..days |->
            Max(0, PolyfitLineAt(recent_prices, last_x + i) + NoiseAt(e, i, volatility))]

\* ARIMA(prices, order).fit().forecast(steps)[k-1]: library code, a function
\* of the series it was fitted on
ARIMA_forecast(prices, k, e) ==
    RawAt(e, k, prices[Len(prices)] + MeanSeq(Diff(TailN(prices, 30))) * k).v

\* fitted_model.fittedvalues: library code; the one-step-ahead fit of a
\* differenced model, the previous price
ARIMA_fittedvalues(prices) ==
    Force([i \in 1..Len(prices) |-> IF i = 1 THEN 0 ELSE prices[i - 1]])

\* accuracy_score of predict: 1 - mae / mean over the fitted values, clamped
ARIMA_accuracy_score(prices) ==
    ClampAccuracy(600, 950, OneMinusRelativeMAE(prices, ARIMA_fittedvalues(prices)))

\* half-width of get_forecast(steps).conf_int() at step k: library code
ARIMA_conf_halfwidth(prices, k) ==
    (Std(Diff(prices), 0) * 196 * SqrtMilli(k, 1)) \div 100000

ARIMAPredictor_predict_body(hd, days, e) ==
    IF Len(hd) < ARIMA_MIN
    THEN Raised("ValueError", Msg("Need at least 60 days of historical data for ARIMA", ""))
    ELSE
    LET df == SortByDate(hd)
        last_date == df[Len(df)].date
    IN  IF ~HasClose(df) THEN KeyErrorClose
        ELSE
        LET prices == Closes(df)
        IN  IF ~avail.statsmodels
            THEN LET predicted_prices == ARIMAPredictor_fallback_trend_prediction(hd, days, e)
                     volatility == Std(TailN(prices, 30), 1)
                     points == [k \in 1..days |->
                         MarginPoint(DatePlus(last_date, k), predicted_prices[k],
                                     (volatility * 196) \div 100)]
                 IN  Returned(Completed("ARIMA (Fallback)", points,
                         [fallback_mode |-> TRUE, data_points_used |-> Len(df),
                          last_price |-> Round2(prices[Len(prices)])]))
            ELSE IF "ARIMA" \in e.fit THEN FitError(e)
            ELSE LET points == [k \in 1..days |->
                         LET forecast == ARIMA_forecast(prices, k, e)
                             half == ARIMA_conf_halfwidth(prices, k)
                         IN  Point(DatePlus(last_date, k), forecast,
                                   Max(0, forecast - half), forecast + half)]
                 IN  Returned(Completed("ARIMA", points,
                         [accuracy_score |-> ARIMA_accuracy_score(prices),
                          data_points_used |-> Len(df),
                          last_price |-> Round2(prices[Len(prices)])]))

ARIMAPredictor_predict(hd, days, e) ==
    CatchPredict(ARIMAPredictor_predict_body(hd, days, e), "ARIMA")

\* train_data = df[:-test_days]
ARIMA_backtest_train(df, test_days) == PyHead(df, 0 - test_days)

ARIMAPredictor_backtest_body(hd, test_days, e) ==
    IF Len(hd) < ARIMA_MIN + test_days
    THEN Raised("ValueError", NeedAtLeast(ARIMA_MIN + test_days,
                    "Need at least {} days for ARIMA backtesting"))
    ELSE
    LET df == SortByDate(hd)
        train_data == ARIMA_backtest_train(df, test_days)
        test_data == PyFrom(df, 0 - test_days)
    IN  IF ~HasClose(df) THEN KeyErrorClose
        ELSE IF avail.statsmodels /\ "ARIMA" \in e.fit THEN FitError(e)
        ELSE
        LET train_prices == Closes(train_data)
            actual_values == Closes(test_data)
            recent_data == TailN(train_prices, 30)
            predictions == [k \in 1..Len(test_data) |->
                IF ~avail.statsmodels
                THEN Max(0, PolyfitLineAt(recent_data, Len(recent_data) + k - 1))
                ELSE ARIMA_forecast(train_prices, k, e)]
        IN  Returned(CompletedBacktest("ARIMA", test_days,
                [i \in 1..Len(predictions) |->
                    BacktestEntry(test_data[i].date, predictions[i], actual_values[i])],
                [mae |-> MeanAbsoluteError(predictions, actual_values),
                 mape |-> MeanAbsolutePercentageError(predictions, actual_values),
                 direction_accuracy |-> DirectionAccuracyDiff(predictions, actual_values)]))

ARIMAPredictor_backtest(hd, test_days, e) ==
    CatchBacktest(ARIMAPredictor_backtest_body(hd, test_days, e), "ARIMA")

----------------------------------------------------------------------------
(* MovingAveragePredictor *)

\* df[col].rolling(window).mean().iloc[-5:].mean(): the mean of the rolling
\* means of the last five rows, undefined (NaN) ones skipped
RollingMeanTail5(closes, window) ==
    LET n == Len(closes)
        defined == {p \in (n - 4)..n : p >= window}
        ma == [p \in defined |-> MeanSeq(SubSeq(closes, p - window + 1, p))]
        total == SumSeq([q \in 1..Cardinality(defined) |-> ma[n - Cardinality(defined) + q]])
    IN  total \div Cardinality(defined)

\* base * factor ** (i / 30), factor in ten-thousandths, to first order in i/30
PowThirtieth(base, factor, i) ==
    (base * (10000 + ((factor - 10000) * i) \div 30)) \div 10000

\* np.clip
Clip(v, lo, hi) == Max(lo, Min(v, hi))

\* _calculate_mock_accuracy: the share of rows where short_ma and close moved
\* the same way (the 10-row rolling mean moves as close[p] - close[p - 10]),
\* clipped to [0.6, 0.9] and rounded to 3 places
MovingAveragePredictor_calculate_mock_accuracy(closes) ==
    IF Len(closes) < 20 THEN 750
    ELSE LET n == Len(closes)
             correct_predictions == Cardinality({p \in (short_window + 1)..n :
                 \/ closes[p] > closes[p - short_window] /\ closes[p] > closes[p - 1]
                 \/ closes[p] < closes[p - short_window] /\ closes[p] < closes[p - 1]})
             total_predictions == n - 1
         IN  Clip((2000 * correct_predictions + total_predictions)
                      \div (2 * total_predictions), 600, 900)

MovingAveragePredictor_predict_body(hd, days, e) ==
    IF Len(hd) < long_window
    THEN Raised("ValueError", NeedAtLeast(long_window, "Need at least {} days of historical data"))
    ELSE
    LET df == SortByDate(hd)
    IN  IF ~HasClose(df) THEN KeyErrorClose
        ELSE
        LET closes == Closes(df)
            recent_short_ma == RollingMeanTail5(closes, short_window)
            recent_long_ma == RollingMeanTail5(closes, long_window)
            trend_factor == IF recent_short_ma > recent_long_ma THEN 10200
                            ELSE IF recent_short_ma < recent_long_ma THEN 9800
                            ELSE 10000
            recent_prices == TailN(closes, 10)
            recent_price == recent_prices[Len(recent_prices)]
            volatility == (Std(recent_prices, 0) * 10000) \div MeanSeq(recent_prices)
            last_date == df[Len(df)].date
            points == [i \in 1..days |->
                LET daily_change == NoiseAt(e, i, volatility) \div 2
                    trended == PowThirtieth(recent_price, trend_factor, i)
                    predicted_price == trended + (trended * daily_change) \div 10000
                    confidence_margin ==
                        (((volatility * recent_price) \div 10000) * 196 * SqrtMilli(i, 30))
                            \div 100000
                IN  MarginPoint(DatePlus(last_date, i), predicted_price, confidence_margin)]
        IN  Returned(Completed("Moving Average", points,
                [accuracy_score |-> MovingAveragePredictor_calculate_mock_accuracy(closes),
                 data_points_used |-> Len(df),
                 last_price |-> Round2(recent_price)]))

MovingAveragePredictor_predict(hd, days, e) ==
    CatchPredict(MovingAveragePredictor_predict_body(hd, days, e), "Moving Average")

\* train_data = df[:-test_days]
MovingAverage_backtest_train(df, test_days) == PyHead(df, 0 - test_days)

MovingAveragePredictor_backtest_body(hd, test_days, e) ==
    IF Len(hd) < long_window + test_days
    THEN Raised("ValueError", NeedAtLeast(long_window + test_days,
                    "Need at least {} days for backtesting"))
    ELSE
    LET df == SortByDate(hd)
        train_data == MovingAverage_backtest_train(df, test_days)
        test_data == PyFrom(df, 0 - test_days)
    IN  IF ~HasClose(df) THEN KeyErrorClose
        ELSE
        LET train_closes == Closes(train_data)
            actual_values == Closes(test_data)
            recent_trend == (RollingMeanTail5(train_closes, short_window) * 10000)
                                \div RollingMeanTail5(train_closes, long_window)
            base_price == train_closes[Len(train_closes)]
            \* iterrows() yields the index label: len(train_data) + k - 1
            predictions == [k \in 1..Len(test_data) |->
                PowThirtieth(base_price, recent_trend, Len(train_data) + k - 1)]
        IN  Returned(CompletedBacktest("Moving Average", test_days,
                [i \in 1..Len(predictions) |->
                    BacktestEntry(test_data[i].date, predictions[i], actual_values[i])],
                [mae |-> MeanAbsoluteError(predictions, actual_values),
                 mape |-> MeanAbsolutePercentageError(predictions, actual_values),
                 direction_accuracy |-> DirectionAccuracyDiff(predictions, actual_values)]))

MovingAveragePredictor_backtest(hd, test_days, e) ==
    CatchBacktest(MovingAveragePredictor_backtest_body(hd, test_days, e), "Moving Average")

----------------------------------------------------------------------------
(* ml_models.py: MLEnsemblePredictor and LinearRegressionPredictor *)

\* _prepare_ml_data, sample for target row i (1-based): the features of the
\* lookback_days rows before row i, every one of which looks at its own row
\* and at earlier rows only.  Two columns of the last row of the window stand
\* for the vector: its sma_5 and its close.
MLEnsemble_sequence_features(closes, i) ==
    [sma_5 |-> MeanSeq(SubSeq(closes, i - 5, i - 1)),
     lag_1 |-> closes[i - 1]]

\* _prepare_ml_data: for i in range(lookback_days, len(df))
MLEnsemble_prepare_ml_data(closes) ==
    LET m == Max(0, Len(closes) - lookback_days)
    IN  [X |-> Force([t \in 1..m |-> MLEnsemble_sequence_features(closes, lookback_days + t)]),
         y |-> Force([t \in 1..m |-> closes[lookback_days + t]])]

\* _fallback_prediction: linear trend of the last lookback_days closes plus noise
MLEnsemble_fallback_prediction(hd, days, e) ==
    LET df == SortByDate(hd)
        recent_prices == TailN(Closes(df), lookback_days)
        trend == PolyfitSlope(recent_prices)
        last_price == recent_prices[Len(recent_prices)]
        volatility == (Std(recent_prices, 0) * 2) \div 100
    IN  [i \in 1..days |->
            Max(0, last_price + trend * i + NoiseAt(e, i, volatility))]

\* np.clip(X_scaled, -10, 10) of one scaled vector
ClipScaled(z) == [sma_5 |-> Clip(z.sma_5, -10000, 10000), lag_1 |-> Clip(z.lag_1, -10000, 10000)]

\* b ** k
RECURSIVE IntPow(_, _)
IntPow(b, k) == IF k = 0 THEN 1 ELSE b * IntPow(b, k - 1)

\* last_price * (num/100) ** k for num a multiple of 25, on the grid of
\* mills: the highest mill that is not above it
Compound(price, num, k) == (price * IntPow(num \div 25, k)) \div IntPow(4, k)

\* the prediction loop of LinearRegressionPredictor.predict: validation,
\* 25% band, capped margin, and the roll of last_sequence
RECURSIVE LinearRegression_predict_loop(_, _, _, _, _, _, _, _, _, _)
LinearRegression_predict_loop(model, last_sequence, closes, last_date, residual_std, i, days, e, upper_pct, acc) ==
    IF i >= days THEN acc
    ELSE
    LET last_price == closes[Len(closes)]
        raw == RawAt(e, i + 1, Regressor_predict(model, last_sequence))
        recent_trend == MeanSeq(Diff(TailN(closes, 10)))
        unclipped == IF Invalid(raw) THEN last_price + (recent_trend * (i + 1)) \div 10
                     ELSE raw.v
        max_change == Compound(last_price, upper_pct, i + 1)
        min_change == 0 - Compound(0 - last_price, 200 - upper_pct, i + 1)
        pred_price == Clip(unclipped, min_change, max_change)
        std_error == (residual_std * SqrtMilli(10 + i, 10)) \div 1000
        confidence_margin == Min((std_error * 196) \div 100, (pred_price * 25) \div 100)
        price_change == ((pred_price - last_price) * 1000) \div last_price
        rolled == [sma_5 |-> last_sequence.lag_1, lag_1 |-> Clip(price_change, -100, 100)]
    IN  LinearRegression_predict_loop(model, rolled, closes, last_date, residual_std,
            i + 1, days, e, upper_pct,
            Append(acc, MarginPoint(DatePlus(last_date, i + 1), pred_price, confidence_margin)))

\* np.std(y - model.predict(X_scaled))
ResidualStd(model, sc, td) ==
    Std([t \in 1..Len(td.y) |->
            td.y[t] - Regressor_predict(model, ClipScaled(StandardScaler_transform(sc, td.X[t])))], 0)

\* accuracy_score of predict: max(0.6, min(0.95, r2_score(y, model.predict(X_scaled))))
LinearRegression_accuracy_score(model, sc, td) ==
    ClampAccuracy(600, 950,
        R2Score(td.y, Force([t \in 1..Len(td.y) |->
            Regressor_predict(model, ClipScaled(StandardScaler_transform(sc, td.X[t])))])))

LinearRegressionPredictor_predict_body(hd, days, e) ==
    IF Len(hd) < lookback_days + 30
    THEN Raised("ValueError", NeedAtLeast(lookback_days + 30,
                    "Need at least {} days of historical data"))
    ELSE
    LET df == SortByDate(hd)
        last_date == df[Len(df)].date
    IN  IF ~HasClose(df) THEN KeyErrorClose
        ELSE
        LET closes == Closes(df)
        IN  IF ~avail.sklearn
            THEN LET predicted_prices == MLEnsemble_fallback_prediction(hd, days, e)
                     volatility == Std(TailN(closes, 30), 1)
                     points == [k \in 1..days |->
                         MarginPoint(DatePlus(last_date, k), predicted_prices[k],
                                     (volatility * 196) \div 100)]
                 IN  Returned(Completed("Linear Regression (Fallback)", points,
                         [fallback_mode |-> TRUE, data_points_used |-> Len(df),
                          last_price |-> Round2(closes[Len(closes)])]))
            ELSE
            LET td == MLEnsemble_prepare_ml_data(closes)
            IN  IF Len(td.X) = 0
                THEN Raised("ValueError",
                            Msg("Not enough valid data after feature engineering", ""))
                ELSE IF \E i \in 1..Len(closes) : closes[i] <= 0
                THEN Raised("ValueError", Msg("Invalid price data detected", ""))
                ELSE IF "LinearRegressionPredictor" \in e.fit THEN FitError(e)
                ELSE
                LET sc == StandardScaler_fit(td.X)
                    model == SimpleML_train_model(td.X, td.y)
                    last_sequence ==
                        ClipScaled(StandardScaler_transform(sc, td.X[Len(td.X)]))
                    points == LinearRegression_predict_loop(model, last_sequence, closes,
                                  last_date, ResidualStd(model, sc, td), 0, days, e, 125, <<>>)
                IN  Returned(Completed("Linear Regression", points,
                        [accuracy_score |-> LinearRegression_accuracy_score(model, sc, td),
                         data_points_used |-> Len(df),
                         last_price |-> Round2(closes[Len(closes)])]))

LinearRegressionPredictor_predict(hd, days, e) ==
    CatchPredict(LinearRegressionPredictor_predict_body(hd, days, e), "Linear Regression")

\* train_df = df[:-test_days]
LinearRegression_backtest_train(df, test_days) == PyHead(df, 0 - test_days)

\* the target row whose sample predicts held-out day k:
\* _prepare_ml_data(df)[0][-len(test_df):][k - 1]
LinearRegression_backtest_sample_row(n, test_days, k) == n - test_days + k

LinearRegressionPredictor_backtest_body(hd, test_days, e) ==
    IF Len(hd) < lookback_days + test_days + 30
    THEN Raised("ValueError", NeedAtLeast(lookback_days + test_days + 30,
                    "Need at least {} days for backtesting"))
    ELSE
    LET df == SortByDate(hd)
        train_df == LinearRegression_backtest_train(df, test_days)
        test_df == PyFrom(df, 0 - test_days)
    IN  IF ~HasClose(df) THEN KeyErrorClose
        ELSE IF avail.sklearn /\ "LinearRegressionPredictor" \in e.fit THEN FitError(e)
        ELSE
        LET closes == Closes(df)
            train_closes == Closes(train_df)
            actual_values == Closes(test_df)
            td == MLEnsemble_prepare_ml_data(train_closes)
            sc == StandardScaler_fit(td.X)
            model == SimpleML_train_model(td.X, td.y)
            trend == PolyfitSlope(TailN(train_closes, 30))
            predictions == [k \in 1..Len(test_df) |->
                IF ~avail.sklearn
                THEN train_closes[Len(train_closes)] + trend * k
                ELSE RawAt(e, k, Regressor_predict(model,
                        StandardScaler_transform(sc,
                            MLEnsemble_sequence_features(closes,
                                LinearRegression_backtest_sample_row(Len(df), test_days, k))))).v]
        IN  Returned(CompletedBacktest("Linear Regression", test_days,
                [i \in 1..Len(predictions) |->
                    BacktestEntry(test_df[i].date, predictions[i], actual_values[i])],
                [mae |-> MeanAbsoluteError(predictions, actual_values),
                 mape |-> MeanAbsolutePercentageError(predictions, actual_values),
                 direction_accuracy |-> DirectionAccuracyDiff(predictions, actual_values)]))

LinearRegressionPredictor_backtest(hd, test_days, e) ==
    CatchBacktest(LinearRegressionPredictor_backtest_body(hd, test_days, e),
                  "Linear Regression")

----------------------------------------------------------------------------
(* The forecaster instances and their dispatch *)

\* ModelManager.__init__: self.models, in insertion order
ModelNames == <<"LSTM", "Linear Regression", "Random Forest", "XGBoost">>

ModelManager_init_models ==
    [name \in {ModelNames[i] : i \in 1..Len(ModelNames)} |->
        CASE name = "LSTM"              -> "LSTMPredictor"
          [] name = "Linear Regression" -> "SimpleLinearRegressionPredictor"
          [] name = "Random Forest"     -> "SimpleRandomForestPredictor"
          [] OTHER                      -> "SimpleXGBoostPredictor"]

SimpleNames == {"Linear Regression", "Random Forest", "XGBoost"}

\* the forecasters called directly; "LinearRegressionPredictor" is the class
\* of ml_models.py, "Linear Regression" the registered SimpleML subclass
Forecasters == {"LSTM", "Linear Regression", "ARIMA", "Moving Average",
                "LinearRegressionPredictor"}

\* self.scaler of a forecaster that was never fitted
Unfitted == [n |-> 0]

\* await <forecaster>.predict(...): the outcome and the state it leaves
Forecaster_predict_run(f, sc, dsk, hd, days, e) ==
    CASE f = "LSTM" ->
            With(LSTMPredictor_predict_run(sc["LSTM"], dsk, hd, days, e), LAMBDA r :
                [out |-> CatchPredict(r.out, "LSTM"),
                 scaler |-> [sc EXCEPT !["LSTM"] = r.scaler], disk |-> r.disk])
      [] f \in SimpleNames ->
            [out |-> SimpleMLPredictor_predict(f, hd, days, e),
             scaler |-> [sc EXCEPT ![f] = SimpleML_scaler_after_predict(sc[f], hd)],
             disk |-> dsk]
      [] f = "ARIMA" ->
            [out |-> ARIMAPredictor_predict(hd, days, e), scaler |-> sc, disk |-> dsk]
      [] f = "Moving Average" ->
            [out |-> MovingAveragePredictor_predict(hd, days, e), scaler |-> sc, disk |-> dsk]
      [] OTHER ->
            [out |-> LinearRegressionPredictor_predict(hd, days, e), scaler |-> sc, disk |-> dsk]

\* await <forecaster>.backtest(...): the outcome and the state it leaves
Forecaster_backtest_run(f, sc, hd, test_days, e) ==
    CASE f = "LSTM" ->
            With(LSTMPredictor_backtest_run(sc["LSTM"], hd, test_days, e), LAMBDA r :
                [out |-> CatchBacktest(r.out, "LSTM"),
                 scaler |-> [sc EXCEPT !["LSTM"] = r.scaler]])
      [] f \in SimpleNames ->
            [out |-> SimpleMLPredictor_backtest(f, hd, test_days, e),
             scaler |-> [sc EXCEPT ![f] = SimpleML_scaler_after_backtest(sc[f], hd, test_days)]]
      [] f = "ARIMA" ->
            [out |-> ARIMAPredictor_backtest(hd, test_days, e), scaler |-> sc]
      [] f = "Moving Average" ->
            [out |-> MovingAveragePredictor_backtest(hd, test_days, e), scaler |-> sc]
      [] OTHER ->
            [out |-> LinearRegressionPredictor_backtest(hd, test_days, e), scaler |-> sc]

----------------------------------------------------------------------------
(* ModelManager *)

ModelNotAvailable(model_name) == Msg("Model {} not available", model_name)

\* get_single_prediction: the outcome, the state it leaves, who was invoked
ModelManager_get_single_prediction(model_name, sc, dsk, hd, days, e) ==
    IF model_name \notin DOMAIN models
    THEN [out |-> Returned(FailedPrediction(model_name, ModelNotAvailable(model_name))),
          scaler |-> sc, disk |-> dsk, invoked |-> {}]
    ELSE With(Forecaster_predict_run(model_name, sc, dsk, hd, days, e), LAMBDA r :
             [out |-> CatchPredict(r.out, model_name),
              scaler |-> r.scaler, disk |-> r.disk, invoked |-> {model_name}])

\* backtest_model
ModelManager_backtest_model(model_name, sc, hd, test_days, e) ==
    IF model_name \notin DOMAIN models
    THEN [out |-> Returned(FailedBacktest(model_name, ModelNotAvailable(model_name))),
          scaler |-> sc, invoked |-> {}]
    ELSE With(Forecaster_backtest_run(model_name, sc, hd, test_days, e), LAMBDA r :
             [out |-> CatchBacktest(r.out, model_name),
              scaler |-> r.scaler, invoked |-> {model_name}])

\* get_model_info
ModelManager_get_model_info(model_name) ==
    IF model_name \notin DOMAIN models
    THEN [error |-> Msg("Model {} not found", model_name)]
    ELSE IF model_name = "LSTM"
    THEN [name |-> model_name, class |-> models[model_name],
          sequence_length |-> sequence_length]
    ELSE [name |-> model_name, class |-> models[model_name],
          lookback_days |-> lookback_days]

\* results[result["model"]] = result: keyed by the label the forecaster chose
StoreResult_by_label(res, model_name, result) ==
    [k \in DOMAIN res \cup {result.model} |-> IF k = result.model THEN result ELSE res[k]]

\* results[model_name] = result
StoreResult(res, model_name, result) ==
    [k \in DOMAIN res \cup {model_name} |-> IF k = model_name THEN result ELSE res[k]]

\* the await loop's `try: result = await task ... except Exception as e:`
AwaitPrediction(o, model_name) ==
    IF o.raised THEN FailedPrediction(model_name, o.msg) ELSE o.value
AwaitBacktest(o, model_name) ==
    IF o.raised THEN FailedBacktest(model_name, o.msg) ELSE o.value

\* position in `tasks` of the coroutine the await loop is at (0: loop over)
CurrentTask ==
    IF \A i \in 1..Len(tasks) : co[tasks[i]] = "finished" THEN 0
    ELSE CHOOSE i \in 1..Len(tasks) :
            /\ co[tasks[i]] # "finished"
            /\ \A j \in 1..(i - 1) : co[tasks[j]] = "finished"

----------------------------------------------------------------------------
(* Inputs of the calls *)

Shapes == {"up", "down", "saw", "crash"}

\* histories around a length threshold: one row short of it up to Slack rows
\* more, every shape, every row order, and rows with columns missing
HistsNear(thr) ==
    {Hist(n, "saw", "asc", "ohlc") : n \in (thr - 1)..(thr + Slack)}
    \cup {Hist(thr, s, "asc", "ohlc") : s \in Shapes}
    \cup {Hist(thr, "saw", o, "ohlc") : o \in {"desc", "rot"}}
    \cup {Hist(thr, "up", "asc", c) : c \in {"close", "none"}}

\* the shortest history predict accepts, by forecaster
MinHistory(f) ==
    CASE f = "LSTM"             -> sequence_length + 30
      [] f \in SimpleNames      -> lookback_days + 1
      [] f = "ARIMA"            -> ARIMA_MIN
      [] f = "Moving Average"   -> long_window
      [] OTHER                  -> lookback_days + 30

\* forecasters that validate what the regressor returns
Validating == SimpleNames \cup {"LinearRegressionPredictor"}

Env(fit, raw, noise) ==
    [fit |-> fit, raw |-> raw, noise |-> noise, msg |-> "SVD did not converge"]

\* library behaviours of a direct call to forecaster f
EnvsFor(f) ==
    {Env({}, r, "zero") : r \in IF f \in Validating THEN RawKinds ELSE NumericRawKinds}
    \cup {Env({}, "model", z) : z \in NoiseKinds}
    \cup {Env({f}, "model", "zero"), [Env({f}, "model", "zero") EXCEPT !.msg = ""]}

\* inputs of the coordinator's calls
ManagerHists ==
    {Hist(sequence_length + 30, "up", "asc", "ohlc"),
     Hist(sequence_length + 30 + Slack, "saw", "rot", "ohlc"),
     Hist(lookback_days + 1 + Slack, "down", "desc", "ohlc"),
     Hist(sequence_length + 30, "crash", "asc", "close")}
ManagerEnvs ==
    {Env(fit, r, "zero") :
        fit \in {{}, {"LSTM"}, {"Random Forest"}, {"LSTM", "XGBoost"}},
        r \in {"model", "neg"}}
RequestNames == {ModelNames[i] : i \in 1..Len(ModelNames)} \cup {"ARIMA", "Prophet"}

NoRequest == [op |-> "none", name |-> "", h |-> Hist(0, "up", "asc", "ohlc"), days |-> 0]
Request(op, name, h, days) == [op |-> op, name |-> name, h |-> h, days |-> days]
NoResult == Returned([status |-> "none"])
EmptyDict == [k \in {} |-> 0]

\* a model file left in model_dir by an earlier process
CachedFile == SavedFile([bias |-> 40], [n |-> 120, min |-> 9000, range |-> 12000])

----------------------------------------------------------------------------
(* The state machine *)

\* what the imports found, and what an earlier process left in model_dir
Installations ==
    {[all |-> FALSE, disk |-> NoFile], [all |-> TRUE, disk |-> NoFile],
     [all |-> TRUE, disk |-> CachedFile]}

Init ==
    /\ \E c \in Installations :
        /\ avail = [tensorflow |-> c.all, statsmodels |-> c.all,
                    sklearn |-> c.all, xgboost |-> c.all]
        /\ disk = c.disk
    /\ models = ModelManager_init_models
    /\ pc = "idle"
    /\ rq = NoRequest
    /\ env = Env({}, "model", "zero")
    /\ tasks = <<>>
    /\ co = EmptyDict
    /\ results = EmptyDict
    /\ ret = NoResult
    /\ invoked = {}
    /\ scaler = [f \in DOMAIN ModelManager_init_models |-> Unfitted]
    /\ svc = NoService

\* a caller awaits <forecaster>.predict(symbol, historical_data, prediction_days)
Predict ==
    /\ pc = "idle"
    /\ \E f \in Forecasters, d \in 1..MaxDays :
       \E h \in HistsNear(MinHistory(f)), e \in EnvsFor(f) :
        \E r \in {Forecaster_predict_run(f, scaler, disk, Rows(h), d, e)} :
            /\ pc' = "done"
            /\ rq' = Request("predict", f, h, d)
            /\ env' = e
            /\ ret' = r.out
            /\ scaler' = r.scaler
            /\ disk' = r.disk
            /\ invoked' = {f}
            /\ UNCHANGED <<svc, avail, models, tasks, co, results>>

\* a caller awaits <forecaster>.backtest(symbol, historical_data, test_days)
Backtest ==
    /\ pc = "idle"
    /\ \E f \in Forecasters, t \in 1..MaxDays :
       \E h \in HistsNear(MinHistory(f) + t), e \in EnvsFor(f) :
        \E r \in {Forecaster_backtest_run(f, scaler, Rows(h), t, e)} :
            /\ pc' = "done"
            /\ rq' = Request("backtest", f, h, t)
            /\ env' = e
            /\ ret' = r.out
            /\ scaler' = r.scaler
            /\ invoked' = {f}
            /\ UNCHANGED <<svc, avail, disk, models, tasks, co, results>>

GetSinglePrediction ==
    /\ pc = "idle"
    /\ \E name \in RequestNames, d \in 1..MaxDays, h \in ManagerHists, e \in ManagerEnvs :
        \E r \in {ModelManager_get_single_prediction(name, scaler, disk, Rows(h), d, e)} :
            /\ pc' = "done"
            /\ rq' = Request("get_single_prediction", name, h, d)
            /\ env' = e
            /\ ret' = r.out
            /\ scaler' = r.scaler
            /\ disk' = r.disk
            /\ invoked' = r.invoked
            /\ UNCHANGED <<svc, avail, models, tasks, co, results>>

BacktestModel ==
    /\ pc = "idle"
    /\ \E name \in RequestNames, t \in 1..MaxDays, h \in ManagerHists, e \in ManagerEnvs :
        \E r \in {ModelManager_backtest_model(name, scaler, Rows(h), t, e)} :
            /\ pc' = "done"
            /\ rq' = Request("backtest_model", name, h, t)
            /\ env' = e
            /\ ret' = r.out
            /\ scaler' = r.scaler
            /\ invoked' = r.invoked
            /\ UNCHANGED <<svc, avail, disk, models, tasks, co, results>>

GetModelInfo ==
    /\ pc = "idle"
    /\ \E name \in RequestNames :
        /\ pc' = "done"
        /\ rq' = Request("get_model_info", name, NoRequest.h, 0)
        /\ ret' = Returned(ModelManager_get_model_info(name))
        /\ invoked' = {}
        /\ UNCHANGED <<svc, avail, disk, models, env, tasks, co, results, scaler>>

\* get_all_predictions up to its first await: one coroutine object per
\* registered model is created and appended to `tasks`; none is started
GetAllPredictions_Call ==
    /\ pc = "idle"
    /\ \E d \in 1..MaxDays, h \in ManagerHists, e \in ManagerEnvs :
        /\ rq' = Request("get_all_predictions", "", h, d)
        /\ env' = e
    /\ pc' = "await"
    /\ tasks' = ModelNames
    /\ co' = [m \in DOMAIN models |-> "created"]
    /\ results' = EmptyDict
    /\ invoked' = {}
    /\ UNCHANGED <<svc, avail, disk, models, ret, scaler>>

\* `result = await task`: the coroutine the loop is at starts running
GetAllPredictions_AwaitStart ==
    /\ pc = "await"
    /\ rq.op = "get_all_predictions"
    /\ CurrentTask > 0
    /\ co[tasks[CurrentTask]] = "created"
    /\ co' = [co EXCEPT ![tasks[CurrentTask]] = "running"]
    /\ invoked' = invoked \cup {tasks[CurrentTask]}
    /\ UNCHANGED <<svc, avail, disk, models, pc, rq, env, tasks, results, ret, scaler>>

\* the awaited coroutine finishes and its result is stored under model_name
GetAllPredictions_AwaitFinish ==
    /\ pc = "await"
    /\ rq.op = "get_all_predictions"
    /\ CurrentTask > 0
    /\ co[tasks[CurrentTask]] = "running"
    /\ \E model_name \in {tasks[CurrentTask]} :
       \E r \in {ModelManager_get_single_prediction(model_name, scaler, disk,
                                                     Rows(rq.h), rq.days, env)} :
           /\ results' = StoreResult(results, model_name, AwaitPrediction(r.out, model_name))
           /\ scaler' = r.scaler
           /\ disk' = r.disk
           /\ co' = [co EXCEPT ![model_name] = "finished"]
    /\ UNCHANGED <<svc, avail, models, pc, rq, env, tasks, ret, invoked>>

\* return results
GetAllPredictions_Return ==
    /\ pc = "await"
    /\ rq.op = "get_all_predictions"
    /\ CurrentTask = 0
    /\ ret' = Returned(results)
    /\ pc' = "done"
    /\ UNCHANGED <<svc, avail, disk, models, rq, env, tasks, co, results, invoked, scaler>>

\* backtest_all_models up to its first await
BacktestAllModels_Call ==
    /\ pc = "idle"
    /\ \E t \in 1..MaxDays, h \in ManagerHists, e \in ManagerEnvs :
        /\ rq' = Request("backtest_all_models", "", h, t)
        /\ env' = e
    /\ pc' = "await"
    /\ tasks' = ModelNames
    /\ co' = [m \in DOMAIN models |-> "created"]
    /\ results' = EmptyDict
    /\ invoked' = {}
    /\ UNCHANGED <<svc, avail, disk, models, ret, scaler>>

BacktestAllModels_AwaitStart ==
    /\ pc = "await"
    /\ rq.op = "backtest_all_models"
    /\ CurrentTask > 0
    /\ co[tasks[CurrentTask]] = "created"
    /\ co' = [co EXCEPT ![tasks[CurrentTask]] = "running"]
    /\ invoked' = invoked \cup {tasks[CurrentTask]}
    /\ UNCHANGED <<svc, avail, disk, models, pc, rq, env, tasks, results, ret, scaler>>

BacktestAllModels_AwaitFinish ==
    /\ pc = "await"
    /\ rq.op = "backtest_all_models"
    /\ CurrentTask > 0
    /\ co[tasks[CurrentTask]] = "running"
    /\ \E model_name \in {tasks[CurrentTask]} :
       \E r \in {ModelManager_backtest_model(model_name, scaler, Rows(rq.h), rq.days, env)} :
           /\ results' = StoreResult(results, model_name, AwaitBacktest(r.out, model_name))
           /\ scaler' = r.scaler
           /\ co' = [co EXCEPT ![model_name] = "finished"]
    /\ UNCHANGED <<svc, avail, disk, models, pc, rq, env, tasks, ret, invoked>>

BacktestAllModels_Return ==
    /\ pc = "await"
    /\ rq.op = "backtest_all_models"
    /\ CurrentTask = 0
    /\ ret' = Returned(results)
    /\ pc' = "done"
    /\ UNCHANGED <<svc, avail, disk, models, rq, env, tasks, co, results, invoked, scaler>>

Next ==
    \/ Predict
    \/ Backtest
    \/ GetSinglePrediction
    \/ BacktestModel
    \/ GetModelInfo
    \/ GetAllPredictions_Call
    \/ GetAllPredictions_AwaitStart
    \/ GetAllPredictions_AwaitFinish
    \/ GetAllPredictions_Return
    \/ BacktestAllModels_Call
    \/ BacktestAllModels_AwaitStart
    \/ BacktestAllModels_AwaitFinish
    \/ BacktestAllModels_Return

Spec == Init /\ [][Next]_vars

\* the routes build their coordinator per request (model_manager =
\* ModelManager()): the forecasters of the next request are new instances,
\* while model_dir stays as the requests before left it
NewModelManager ==
    /\ pc = "done"
    /\ pc' = "idle"
    /\ models' = ModelManager_init_models
    /\ scaler' = [f \in DOMAIN ModelManager_init_models |-> Unfitted]
    /\ rq' = NoRequest
    /\ env' = Env({}, "model", "zero")
    /\ ret' = NoResult
    /\ tasks' = <<>>
    /\ co' = EmptyDict
    /\ results' = EmptyDict
    /\ invoked' = {}
    /\ UNCHANGED <<svc, avail, disk>>

\* the coordinator's calls as the routes make them, request after request
ServerNext ==
    \/ NewModelManager
    \/ GetSinglePrediction
    \/ BacktestModel
    \/ GetModelInfo
    \/ GetAllPredictions_Call
    \/ GetAllPredictions_AwaitStart
    \/ GetAllPredictions_AwaitFinish
    \/ GetAllPredictions_Return
    \/ BacktestAllModels_Call
    \/ BacktestAllModels_AwaitStart
    \/ BacktestAllModels_AwaitFinish
    \/ BacktestAllModels_Return

ServerSpec == Init /\ [][ServerNext]_vars

\* the task serving an all-models request is cancelled (Task.cancel(), an
\* asyncio.wait_for around the call timing out) while it is suspended in
\* `result = await task`: CancelledError is raised there; it is a
\* BaseException, so no `except Exception` on the way catches it, and it
\* leaves get_all_predictions / backtest_all_models with the frame that
\* held `results`
AllModels_Cancelled ==
    /\ pc = "await"
    /\ CurrentTask > 0
    /\ co[tasks[CurrentTask]] = "running"
    /\ ret' = Raised("CancelledError", Msg("", ""))
    /\ pc' = "done"
    /\ UNCHANGED <<svc, avail, disk, models, rq, env, tasks, co, results, invoked, scaler>>

\* the all-models calls under cancellation
CancelNext ==
    \/ GetAllPredictions_Call
    \/ GetAllPredictions_AwaitStart
    \/ GetAllPredictions_AwaitFinish
    \/ GetAllPredictions_Return
    \/ BacktestAllModels_Call
    \/ BacktestAllModels_AwaitStart
    \/ BacktestAllModels_AwaitFinish
    \/ BacktestAllModels_Return
    \/ AllModels_Cancelled

CancelSpec == Init /\ [][CancelNext]_vars

----------------------------------------------------------------------------
(* Properties of the coordinator *)

Done == pc = "done"

RegisteredNames == DOMAIN ModelManager_init_models

\* model_dir as the call in progress found it: a call only ever adds the
\* file of a freshly trained model, which differs from CachedFile
DiskBefore == IF disk = CachedFile THEN CachedFile ELSE NoFile

ScalersBefore == [f \in RegisteredNames |-> Unfitted]

\* what model m returns when it is the only model called, the libraries
\* failing for m as they do in this call and for no other model
Alone(m) ==
    IF rq.op = "get_all_predictions"
    THEN ModelManager_get_single_prediction(m, ScalersBefore, DiskBefore, Rows(rq.h),
             rq.days, [env EXCEPT !.fit = env.fit \cap {m}]).out.value
    ELSE ModelManager_backtest_model(m, ScalersBefore, Rows(rq.h),
             rq.days, [env EXCEPT !.fit = env.fit \cap {m}]).out.value

\* C1: get_all_predictions and backtest_all_models return, without raising,
\* a mapping with exactly one entry per registered model name; every entry
\* has a status; and every entry is what its model returns when called
\* alone, so a model that fails has a 'failed' entry and changes no other.
C1_OneEntryPerModel ==
    (Done /\ rq.op \in {"get_all_predictions", "backtest_all_models"}) =>
        /\ ~ret.raised
        /\ DOMAIN ret.value = RegisteredNames
        /\ \A m \in RegisteredNames :
            /\ "status" \in DOMAIN ret.value[m]
            /\ ret.value[m].status \in {"completed", "failed"}
            /\ ret.value[m] = Alone(m)

\* C1 witness: an all-models call in which the fit of Random Forest raised:
\* its entry is failed while its neighbours' entries are completed
C1_Witness ==
    /\ Done
    /\ rq.op \in {"get_all_predictions", "backtest_all_models"}
    /\ env.fit = {"Random Forest"}
    /\ ret.value["Random Forest"].status = "failed"
    /\ ret.value["Linear Regression"].status = "completed"
    /\ ret.value["XGBoost"].status = "completed"

\* C2 (as claimed): when the coordinator reaches its first await, one task
\* per registered model has been started; no coroutine is still unstarted
\* while the call is waiting for results.
C2_TasksStartedBeforeAwait ==
    (pc = "await") => \A m \in DOMAIN co : co[m] # "created"

\* the error text of a failure result
ErrorText(r) ==
    IF "error" \in DOMAIN r THEN r.error
    ELSE IF "metadata" \in DOMAIN r /\ "error" \in DOMAIN r.metadata THEN r.metadata.error
    ELSE Msg("", "")

\* C3 (as claimed): get_single_prediction, backtest_model and get_model_info
\* called with an unregistered name return, without raising and without
\* invoking a forecaster, a failure carrying "Model {name} not available",
\* and leave the registry unchanged.
C3_UnknownModelNotAvailable ==
    (/\ Done
     /\ rq.op \in {"get_single_prediction", "backtest_model", "get_model_info"}
     /\ rq.name \notin RegisteredNames) =>
        /\ ~ret.raised
        /\ invoked = {}
        /\ models = ModelManager_init_models
        /\ ErrorText(ret.value) = ModelNotAvailable(rq.name)

\* the predict results a state holds: the value a finished predict or
\* get_single_prediction returned, and the entries get_all_predictions has
\* collected so far
EveryPrediction(P(_)) ==
    /\ (Done /\ rq.op \in {"predict", "get_single_prediction"} /\ ~ret.raised) => P(ret.value)
    /\ (rq.op = "get_all_predictions") => \A m \in DOMAIN results : P(results[m])

\* the backtest results a state holds
EveryBacktest(P(_)) ==
    /\ (Done /\ rq.op \in {"backtest", "backtest_model"} /\ ~ret.raised) => P(ret.value)
    /\ (rq.op = "backtest_all_models") => \A m \in DOMAIN results : P(results[m])

\* C4: a completed predict result has exactly prediction_days points, and
\* its k-th point is dated k calendar days after the latest date of the
\* history, whatever the order of the rows handed in.
C4_PointCountAndDates ==
    EveryPrediction(LAMBDA r :
        (r.status = "completed") =>
            /\ Len(r.predictions) = rq.days
            /\ \A k \in 1..Len(r.predictions) :
                    r.predictions[k].date = Date(rq.h.n).day + k)

\* C4 witness: a completed forecast of two or more days from a history
\* whose rows were handed in latest first
C4_Witness ==
    /\ Done
    /\ rq.op = "predict"
    /\ rq.h.order = "desc"
    /\ rq.days >= 2
    /\ ~ret.raised
    /\ ret.value.status = "completed"
    /\ Len(ret.value.predictions) = rq.days

\* C5 (as claimed): every point of a completed predict result has
\* lower_bound <= predicted_price <= upper_bound and all three >= 0.
C5_BoundsStraddleAndNonNegative ==
    EveryPrediction(LAMBDA r :
        (r.status = "completed") =>
            \A k \in 1..Len(r.predictions) :
                /\ r.predictions[k].lower_bound <= r.predictions[k].predicted_price
                /\ r.predictions[k].predicted_price <= r.predictions[k].upper_bound
                /\ r.predictions[k].lower_bound >= 0
                /\ r.predictions[k].predicted_price >= 0
                /\ r.predictions[k].upper_bound >= 0)

\* C6 (as claimed): in a completed predict result the margin
\* upper_bound - predicted_price of point k+1 is never smaller than that of
\* point k.
C6_MarginNonDecreasing ==
    EveryPrediction(LAMBDA r :
        (r.status = "completed") =>
            \A k \in 1..(Len(r.predictions) - 1) :
                r.predictions[k + 1].upper_bound - r.predictions[k + 1].predicted_price
                    >= r.predictions[k].upper_bound - r.predictions[k].predicted_price)

StatesMinimum == {"LSTM", "ARIMA", "Moving Average"}

\* C7 (as claimed): for LSTM, ARIMA and Moving Average, predict on a
\* well-formed history of exactly the minimum length m completes, and
\* predict on m - 1 rows raises InsufficientDataError to its caller.
C7_MinimumHistory ==
    (/\ Done
     /\ rq.op = "predict"
     /\ rq.name \in StatesMinimum
     /\ rq.h.cols = "ohlc"
     /\ env.fit = {}) =>
        /\ (rq.h.n = MinHistory(rq.name)) =>
                (~ret.raised /\ ret.value.status = "completed")
        /\ (rq.h.n = MinHistory(rq.name) - 1) =>
                (ret.raised /\ ret.exc = "InsufficientDataError")

\* the history of the finished call is long enough for the model called
LongEnough ==
    IF rq.op \in {"predict", "get_single_prediction"}
    THEN rq.h.n >= MinHistory(rq.name)
    ELSE rq.h.n >= MinHistory(rq.name) + rq.days

\* C8 (as claimed): with a long enough history, predict, backtest,
\* get_single_prediction and backtest_model never raise; a result is
\* completed or failed; a failed one carries a non-empty error message, and
\* a failed predict an empty predictions list.
C8_FailuresAreReturned ==
    (/\ Done
     /\ rq.op \in {"predict", "backtest", "get_single_prediction", "backtest_model"}
     /\ LongEnough) =>
        /\ ~ret.raised
        /\ ret.value.status \in {"completed", "failed"}
        /\ (ret.value.status = "failed") =>
            /\ ErrorText(ret.value).text # ""
            /\ (rq.op \in {"predict", "get_single_prediction"}) =>
                    ret.value.predictions = <<>>

\* C9 (as claimed): every entry of a completed backtest has
\* error = |predicted - actual|.
C9_ErrorIsAbsoluteDifference ==
    EveryBacktest(LAMBDA r :
        (r.status = "completed") =>
            \A k \in 1..Len(r.predictions_vs_actual) :
                r.predictions_vs_actual[k].error =
                    Abs(r.predictions_vs_actual[k].predicted
                        - r.predictions_vs_actual[k].actual))

\* the closes of the rows before the last test_days rows by date
TrainingCloses == [j \in 1..(rq.h.n - rq.days) |-> CloseAt(rq.h, j)]

\* C9 (amended): a completed backtest scores exactly the last test_days
\* rows by date: test_days entries, entry k carrying the date and the close
\* (to the cent) of the k-th held-out row, its error within one cent of
\* |predicted - actual|; and the scaler a SimpleML forecaster keeps was
\* fitted on the features of the rows before the held-out ones.
C9_SplitAndEntries ==
    /\ EveryBacktest(LAMBDA r :
            (r.status = "completed") =>
                /\ Len(r.predictions_vs_actual) = rq.days
                /\ r.test_period = rq.days
                /\ \A k \in 1..Len(r.predictions_vs_actual) :
                    /\ r.predictions_vs_actual[k].date = Date(rq.h.n - rq.days + k).day
                    /\ r.predictions_vs_actual[k].actual
                            = Round2(CloseAt(rq.h, rq.h.n - rq.days + k))
                    /\ Abs(r.predictions_vs_actual[k].error
                           - Abs(r.predictions_vs_actual[k].predicted
                                 - r.predictions_vs_actual[k].actual)) <= 1)
    /\ (/\ Done
        /\ rq.op \in {"backtest", "backtest_model"}
        /\ rq.name \in SimpleNames
        /\ ~ret.raised
        /\ ret.value.status = "completed") =>
            /\ Len(TrainingCloses) > lookback_days
            /\ scaler[rq.name] =
                    StandardScaler_fit(SimpleML_prepare_training_data(TrainingCloses).X)

\* C9 witness: a completed backtest over two or more held-out days, the
\* rows handed in out of date order, with an entry whose error differs
\* from the difference of its rounded fields
C9_Witness ==
    /\ Done
    /\ rq.op = "backtest"
    /\ rq.name \in SimpleNames
    /\ rq.h.order # "asc"
    /\ rq.days >= 2
    /\ ~ret.raised
    /\ ret.value.status = "completed"
    /\ Len(ret.value.predictions_vs_actual) = rq.days
    /\ \E k \in 1..rq.days :
            ret.value.predictions_vs_actual[k].error
                # Abs(ret.value.predictions_vs_actual[k].predicted
                      - ret.value.predictions_vs_actual[k].actual)

\* the finished backtest run again on a history that agrees with the
\* original on every row before held-out day k and differs from day k on
BacktestWithFutureChanged(k) ==
    Forecaster_backtest_run(rq.name, ScalersBefore,
        Rows([rq.h EXCEPT !.at = rq.h.n - rq.days + k, !.by = 700]), rq.days, env)

\* C10: a completed backtest has no look-ahead: changing the rows from
\* held-out day k on leaves the prediction of day k unchanged, and changing
\* all held-out rows leaves the fitted scaler unchanged.
C10_NoLookAhead ==
    (/\ Done
     /\ \/ rq.op = "backtest"
        \/ rq.op = "backtest_model" /\ rq.name \in RegisteredNames
     /\ ~ret.raised
     /\ ret.value.status = "completed") =>
        \A k \in 1..rq.days :
            \E other \in {BacktestWithFutureChanged(k)} :
                /\ ~other.out.raised
                /\ other.out.value.status = "completed"
                /\ other.out.value.predictions_vs_actual[k].predicted
                        = ret.value.predictions_vs_actual[k].predicted
                /\ (k = 1) => other.scaler = scaler

\* C10 witness: a completed backtest of a fitted regressor over two or more
\* held-out days
C10_Witness ==
    /\ Done
    /\ rq.op = "backtest"
    /\ rq.name = "Linear Regression"
    /\ rq.days >= 2
    /\ env.raw = "model"
    /\ ~ret.raised
    /\ ret.value.status = "completed"
    /\ scaler[rq.name] # Unfitted

\* the finished backtest run again on a history whose held-out rows all
\* carry other prices, the training rows unchanged
BacktestWithHeldOutChanged ==
    Forecaster_backtest_run(rq.name, ScalersBefore,
        Rows([rq.h EXCEPT !.at = rq.h.n - rq.days + 1, !.by = 700]), rq.days, env)

\* C11 (as claimed): backtest is walk-forward: with a regressor that answers
\* from its input (one fitted on a single sample answers the same whatever
\* its input), the prediction for held-out day k >= 2 changes when the
\* realized prices of the held-out days change; it is not a step of one
\* forecast made at the end of the training window.
C11_WalkForward ==
    (/\ Done
     /\ rq.op = "backtest"
     /\ env.raw = "model"
     /\ (rq.name \in SimpleNames) => (rq.h.n - rq.days >= lookback_days + 2)
     /\ ~ret.raised
     /\ ret.value.status = "completed") =>
        \A k \in 2..rq.days :
            \E other \in {BacktestWithHeldOutChanged} :
                /\ ~other.out.raised
                /\ other.out.value.status = "completed"
                /\ other.out.value.predictions_vs_actual[k].predicted
                        # ret.value.predictions_vs_actual[k].predicted

Sign(x) == IF x > 0 THEN 1 ELSE IF x < 0 THEN -1 ELSE 0

\* the finished backtest scored what a fitted regressor returned, and the
\* regressor returned the same value for every held-out day
AnswersFlat ==
    /\ env.raw \in {"zero", "neg"}
    /\ \/ rq.name \in SimpleNames
       \/ rq.name = "LSTM" /\ avail.tensorflow
       \/ rq.name = "ARIMA" /\ avail.statsmodels
       \/ rq.name = "LinearRegressionPredictor" /\ avail.sklearn

\* sign of the actual change from held-out day i to day i + 1
ActualSign(i) ==
    Sign(CloseAt(rq.h, rq.h.n - rq.days + i + 1) - CloseAt(rq.h, rq.h.n - rq.days + i))

\* sign of the predicted change from held-out day i to day i + 1.  Rounding
\* keeps the order of two predictions, so two entries that differ show the
\* sign; two equal entries show it when the regressor answered flat.
PredictedSign(i) ==
    Sign(ret.value.predictions_vs_actual[i + 1].predicted
         - ret.value.predictions_vs_actual[i].predicted)
PredictedSignKnown(i) ==
    \/ PredictedSign(i) # 0
    \/ AnswersFlat

\* C12 (as claimed): direction_accuracy of a completed backtest is the
\* fraction (to 3 decimals) of consecutive held-out day pairs whose predicted
\* change has the sign, positive, zero or negative, of the actual change.
C12_DirectionAccuracyBySign ==
    (/\ Done
     /\ rq.op \in {"backtest", "backtest_model"}
     /\ ~ret.raised
     /\ ret.value.status = "completed"
     /\ rq.days >= 2
     /\ \A i \in 1..(rq.days - 1) : PredictedSignKnown(i)) =>
        ret.value.metrics.direction_accuracy =
            (2000 * Cardinality({i \in 1..(rq.days - 1) : PredictedSign(i) = ActualSign(i)})
                + (rq.days - 1)) \div (2 * (rq.days - 1))

\* C13: every completed backtest, a one-day test window included, reports
\* direction_accuracy in [0, 1] and mape >= 0.
C13_MetricRanges ==
    EveryBacktest(LAMBDA r :
        (r.status = "completed") =>
            /\ r.metrics.direction_accuracy >= 0
            /\ r.metrics.direction_accuracy <= 1000
            /\ r.metrics.mape >= 0)

\* C13 witness: a completed backtest over a single held-out day whose
\* prediction lies above the actual close
C13_Witness ==
    /\ Done
    /\ rq.op = "backtest"
    /\ rq.days = 1
    /\ ~ret.raised
    /\ ret.value.status = "completed"
    /\ ret.value.predictions_vs_actual[1].predicted > ret.value.predictions_vs_actual[1].actual
    /\ ret.value.metrics.direction_accuracy = 500
    /\ ret.value.metrics.mape > 0

\* C14 (as claimed): a predict or backtest call leaves no state, in the
\* forecaster or on disk, that changes the result of a later call: whatever
\* requests came before, a request returns what it returns when nothing came
\* before it (no file in model_dir, forecasters never fitted).
C14_NoStateSurvivesACall ==
    (/\ Done
     /\ disk # CachedFile
     /\ rq.op \in {"get_single_prediction", "backtest_model"}) =>
        ret = IF rq.op = "get_single_prediction"
              THEN ModelManager_get_single_prediction(rq.name, ScalersBefore, NoFile,
                       Rows(rq.h), rq.days, env).out
              ELSE ModelManager_backtest_model(rq.name, ScalersBefore,
                       Rows(rq.h), rq.days, env).out

\* the optional library of the forecaster called was not found at import
LibraryMissing ==
    \/ rq.name = "LSTM" /\ ~avail.tensorflow
    \/ rq.name = "ARIMA" /\ ~avail.statsmodels
    \/ rq.name = "XGBoost" /\ ~avail.xgboost

\* C15 (as claimed): when the optional library of a forecaster is missing
\* (TensorFlow for LSTM, statsmodels for ARIMA, xgboost for XGBoost), predict
\* on a well-formed, long enough history returns status "completed" with
\* metadata.fallback_mode true.
C15_FallbackCompletesAndIsLabelled ==
    (/\ Done
     /\ rq.op \in {"predict", "get_single_prediction"}
     /\ (rq.op = "get_single_prediction") => (rq.name \in RegisteredNames)
     /\ LibraryMissing
     /\ LongEnough
     /\ rq.h.cols = "ohlc"
     /\ env.fit = {}) =>
        /\ ~ret.raised
        /\ ret.value.status = "completed"
        /\ "fallback_mode" \in DOMAIN ret.value.metadata
        /\ ret.value.metadata.fallback_mode = TRUE

\* C16 (as claimed): every completed predict result, fallback paths
\* included, carries metadata.accuracy_score with a value in [0.5, 0.95].
C16_AccuracyScoreClamped ==
    EveryPrediction(LAMBDA r :
        (r.status = "completed") =>
            /\ "accuracy_score" \in DOMAIN r.metadata
            /\ r.metadata.accuracy_score >= 500
            /\ r.metadata.accuracy_score <= 950)

\* predict called once more with the arguments of the finished call, on the
\* forecaster as that call left it (self.scaler fitted, model_dir written),
\* the random generator drawing as in `noise`
PredictAgain(noise) ==
    Forecaster_predict_run(rq.name, scaler, disk, Rows(rq.h), rq.days,
                           [env EXCEPT !.noise = noise]).out

C19_SameInstancesServeEveryRequest ==
    [][/\ models' = models
       /\ DOMAIN scaler' = DOMAIN scaler
       /\ (pc = "done" /\ pc' = "idle") => (scaler' = scaler)]_vars

\* the messages of the length checks of the backtests
InsufficientDataTexts ==
    {"Need at least {} days for backtesting", "Need at least {} days for ARIMA backtesting"}

\* C20 (as claimed): for every forecaster, backtest on a well-formed history
\* shorter than the minimum history of predict plus test_days raises
\* InsufficientDataError before anything is fitted, and on a history of at
\* least that length it does not fail for want of data.
C20_BacktestMinimumHistory ==
    (/\ Done
     /\ rq.op = "backtest"
     /\ rq.h.cols = "ohlc"
     /\ env.fit = {}) =>
        /\ (rq.h.n < MinHistory(rq.name) + rq.days) =>
                /\ ret.raised
                /\ ret.exc = "InsufficientDataError"
                /\ scaler = ScalersBefore
        /\ (rq.h.n >= MinHistory(rq.name) + rq.days) =>
                /\ ret.raised => (ret.exc # "InsufficientDataError")
                /\ ~ret.raised => (ErrorText(ret.value).text \notin InsufficientDataTexts)

\* C21 (as claimed): every predicted_price of a completed predict result is
\* strictly positive, also when the model's output is NaN, infinite or <= 0
\* and when the recent closes fall steeply.
C21_PredictedPricePositive ==
    EveryPrediction(LAMBDA r :
        (r.status = "completed") =>
            \A k \in 1..Len(r.predictions) : r.predictions[k].predicted_price > 0)

\* the forecasters whose predict asks the fitted model once per day and
\* emits its valid answer as the day's price, with no band in between
EmitsModelAnswer ==
    \/ rq.name \in SimpleNames
    \/ rq.name = "LSTM" /\ avail.tensorflow

\* the finished predict call with the model's answer for day 1 raised and
\* its answers for equal inputs on later days left as they were
PredictWithFirstDayRaised ==
    Forecaster_predict_run(rq.name, ScalersBefore, DiskBefore, Rows(rq.h), rq.days,
                           [env EXCEPT !.raw = "first"]).out

\* C22 (as claimed): a multi-day forecast is a forward chain: day 2 is
\* predicted from an input updated with day 1's predicted price, so when
\* day 1's predicted price is different, the model is asked about a
\* different input for day 2 and day 2's predicted price is different too
\* (a regressor fitted on a single sample answers the same whatever its
\* input, and is left out).
C22_ForwardChain ==
    (/\ Done
     /\ rq.op = "predict"
     /\ EmitsModelAnswer
     /\ (rq.name \in SimpleNames) => (rq.h.n >= lookback_days + 2)
     /\ env.raw = "model"
     /\ rq.days >= 2
     /\ ~ret.raised
     /\ ret.value.status = "completed") =>
        \E other \in {PredictWithFirstDayRaised} :
            (/\ ~other.raised
             /\ other.value.status = "completed"
             /\ other.value.predictions[1].predicted_price
                    # ret.value.predictions[1].predicted_price) =>
                other.value.predictions[2].predicted_price
                    # ret.value.predictions[2].predicted_price

\* the training set _prepare_training_data builds from the history of the
\* finished call when the closes of rows i.. (by date, 1-based) are raised
TrainingSetWithRowsRaised(i) ==
    SimpleML_prepare_training_data(
        Closes(SortByDate(Rows([rq.h EXCEPT !.at = i, !.by = 700]))))

\* C23 (as claimed): the training set built from n rows with lookback L has
\* max(0, n - L) pairs; the pair of row i has y = close of row i and an X
\* built from the rows before row i only, so X stays the same when the
\* closes of row i and later are different; with no pair the call fails
\* for want of data.
C23_TrainingPairs ==
    (/\ Done
     /\ rq.op \in {"predict", "get_single_prediction"}
     /\ rq.name \in SimpleNames
     /\ rq.h.cols = "ohlc"
     /\ env.fit = {}
     /\ ~ret.raised) =>
        \E td \in {TrainingSetWithRowsRaised(0)} :
            /\ Len(td.X) = Max(0, rq.h.n - lookback_days)
            /\ Len(td.y) = Len(td.X)
            /\ (Len(td.X) = 0) =>
                    /\ ret.value.status = "failed"
                    /\ ErrorText(ret.value).text = "Not enough data for training"
            /\ (ret.value.status = "completed") =>
                    (ret.value.metadata.training_samples = Len(td.X))
            /\ \A t \in 1..Len(td.X) :
                    /\ td.y[t] = CloseAt(rq.h, lookback_days + t)
                    /\ TrainingSetWithRowsRaised(lookback_days + t).X[t] = td.X[t]

\* the price p (cents) is inside the 25% band of step k around the last
\* close (mills), to the cent: last * 0.75^k <= p <= last * 1.25^k, with
\* half a cent allowed for the rounding of the emitted price
InsideBandToTheCent(p, last, k) ==
    /\ last * IntPow(3, k) - 5 * IntPow(4, k) <= p * 10 * IntPow(4, k)
    /\ p * 10 * IntPow(4, k) <= last * IntPow(5, k) + 5 * IntPow(4, k)

\* the history of the finished call with its last close lowered by 0.40
LastCloseLowered == [rq.h EXCEPT !.at = rq.h.n, !.by = -400]

----------------------------------------------------------------------------
(* SimplePaperTradingService (api/services/simple_paper_trading.py): the    *)
(* class-level stores `portfolios` and `trades` of one created portfolio,   *)
(* one get_portfolio coroutine and one execute_trade coroutine in flight.   *)
(* Money is in cents.  A dict is a record [keys, val]: keys is the entry    *)
(* table in insertion order, with "" where an entry was deleted.            *)
(* trade_calls counts the execute_trade calls made, to bound the run.       *)

MaxTrades == 2

STARTING_CASH == 1000000
MIN_TRADE_AMOUNT == 100

Symbols == {"AAPL", "MSFT"}
\* what get_stock_price returns; 0 stands for None (no data, or an error)
Prices == {0, 50, 400000}
Quantities == {1, 2}
PortfolioIds == {"p1", "unknown"}

\* the forecasting side of the application at rest
ForecastersAtRest ==
    /\ avail = [tensorflow |-> TRUE, statsmodels |-> TRUE, sklearn |-> TRUE, xgboost |-> TRUE]
    /\ disk = NoFile
    /\ models = ModelManager_init_models
    /\ pc = "idle"
    /\ rq = NoRequest
    /\ env = Env({}, "model", "zero")
    /\ tasks = <<>>
    /\ co = EmptyDict
    /\ results = EmptyDict
    /\ ret = NoResult
    /\ invoked = {}
    /\ scaler = [f \in DOMAIN ModelManager_init_models |-> Unfitted]

forecasting == <<avail, disk, models, pc, rq, env, tasks, co, results, ret, invoked, scaler>>

NewDict == [keys |-> <<>>, val |-> EmptyDict]
DictLen(d) == Cardinality(DOMAIN d.val)
\* d[k] = v
DictSet(d, k, v) ==
    IF k \in DOMAIN d.val THEN [d EXCEPT !.val[k] = v]
    ELSE [keys |-> Append(d.keys, k), val |-> (k :> v) @@ d.val]
\* del d[k]
DictDel(d, k) ==
    [keys |-> [i \in DOMAIN d.keys |-> IF d.keys[i] = k THEN "" ELSE d.keys[i]],
     val |-> [x \in DOMAIN d.val \ {k} |-> d.val[x]]]

NoValue == -1
NoCoroutine == [pc |-> "idle"]

\* create_portfolio: the stored portfolio
NewPortfolio ==
    [starting_cash |-> STARTING_CASH, cash |-> STARTING_CASH, positions |-> NewDict,
     total_value |-> STARTING_CASH, trade_count |-> 0]

SimpleTradingInit ==
    /\ ForecastersAtRest
    /\ svc = [service |-> "simple_paper_trading",
              portfolio |-> NewPortfolio,
              trades |-> <<>>,
              get |-> NoCoroutine,
              trade |-> NoCoroutine,
              trade_calls |-> 0,
              result |-> [op |-> "create_portfolio", success |-> TRUE]]

Result(s, op, success) == [s EXCEPT !.result = [op |-> op, success |-> success]]

\* the dict object get_portfolio iterates: portfolio["positions"] of its
\* shallow copy, which is the stored portfolio's dict until reset_portfolio
\* puts a new dict in its place
IteratedDict(s) == IF s.get.live THEN s.portfolio.positions ELSE s.get.dict

\* get_portfolio from the head of `for symbol, position in ...items()` to
\* the next await or to the return: the iterator raises RuntimeError when
\* the dict's size is not the size it started with
GetPortfolio_loop(s) ==
    LET d == IteratedDict(s)
        g == s.get
        rest == {i \in DOMAIN d.keys : i > g.pos /\ d.keys[i] # ""}
    IN  IF DictLen(d) # g.used
        THEN Result([s EXCEPT !.get = NoCoroutine], "get_portfolio", FALSE)
        ELSE IF rest = {}
        THEN Result([s EXCEPT !.get = NoCoroutine,
                              !.portfolio = [g.portfolio EXCEPT
                                  !.positions = g.updated_positions,
                                  !.total_value = g.portfolio.cash + g.positions_value]],
                    "get_portfolio", TRUE)
        ELSE LET i == CHOOSE j \in rest : \A k \in rest : j <= k
             IN  [s EXCEPT !.get = [g EXCEPT !.pc = "price", !.pos = i,
                                             !.symbol = d.keys[i],
                                             !.position = d.val[d.keys[i]]]]

\* a client calls get_portfolio(portfolio_id); it runs to its first await
GetPortfolio_Call ==
    /\ svc.get.pc = "idle"
    /\ \E portfolio_id \in PortfolioIds :
        svc' = IF portfolio_id # "p1"
               THEN Result(svc, "get_portfolio", FALSE)
               ELSE GetPortfolio_loop([svc EXCEPT !.get =
                        [pc |-> "start", portfolio |-> svc.portfolio, live |-> TRUE,
                         dict |-> NewDict, used |-> DictLen(svc.portfolio.positions),
                         pos |-> 0, symbol |-> "", position |-> [quantity |-> 0],
                         updated_positions |-> NewDict, positions_value |-> 0]])
    /\ UNCHANGED forecasting

\* `await self.get_stock_price(symbol)` of get_portfolio returns
GetPortfolio_Price ==
    /\ svc.get.pc = "price"
    /\ \E current_price \in Prices :
        LET g == svc.get
            current_value == g.position.quantity * current_price
            kept == IF g.position.current_value # NoValue
                    THEN g.position.current_value ELSE g.position.total_invested
        IN  svc' = GetPortfolio_loop([svc EXCEPT
                !.get.updated_positions = DictSet(@, g.symbol,
                    IF current_price # 0
                    THEN [g.position EXCEPT !.current_value = current_value]
                    ELSE g.position),
                !.get.positions_value =
                    @ + (IF current_price # 0 THEN current_value ELSE kept)])
    /\ UNCHANGED forecasting

Position(quantity, avg_price, total_invested) ==
    [quantity |-> quantity, avg_price |-> avg_price,
     total_invested |-> total_invested, current_value |-> NoValue]

TradeRecord(symbol, action, quantity, price, cash_after) ==
    [symbol |-> symbol, action |-> action, quantity |-> quantity, price |-> price,
     total_amount |-> price * quantity, cash_after |-> cash_after]

SimpleTrading_execute_buy_unfunded(s, symbol, quantity, current_price) ==
    LET portfolio == s.portfolio
        trade_amount == current_price * quantity
    IN  IF trade_amount < MIN_TRADE_AMOUNT
        THEN Result(s, "execute_trade", FALSE)
        ELSE Result([s EXCEPT
                !.portfolio.positions = DictSet(@, symbol,
                    Position(quantity, current_price, trade_amount)),
                !.portfolio.cash = @ - trade_amount,
                !.portfolio.trade_count = @ + 1,
                !.trades = Append(@, TradeRecord(symbol, "buy", quantity, current_price,
                                                 portfolio.cash - trade_amount))],
             "execute_trade", TRUE)

SimpleTrading_execute_buy(s, symbol, quantity, current_price) ==
    LET portfolio == s.portfolio
        trade_amount == current_price * quantity
        held == symbol \in DOMAIN portfolio.positions.val
        existing == portfolio.positions.val[symbol]
        position ==
            IF held
            THEN Position(existing.quantity + quantity,
                          (existing.total_invested + trade_amount)
                              \div (existing.quantity + quantity),
                          existing.total_invested + trade_amount)
            ELSE Position(quantity, current_price, trade_amount)
    IN  IF trade_amount > portfolio.cash \/ trade_amount < MIN_TRADE_AMOUNT
        THEN Result(s, "execute_trade", FALSE)
        ELSE Result([s EXCEPT
                !.portfolio.positions = DictSet(@, symbol, position),
                !.portfolio.cash = @ - trade_amount,
                !.portfolio.trade_count = @ + 1,
                !.trades = Append(@, TradeRecord(symbol, "buy", quantity, current_price,
                                                 portfolio.cash - trade_amount))],
             "execute_trade", TRUE)

SimpleTrading_execute_sell(s, symbol, quantity, current_price) ==
    LET portfolio == s.portfolio
        trade_amount == current_price * quantity
    IN  IF symbol \notin DOMAIN portfolio.positions.val
        THEN Result(s, "execute_trade", FALSE)
        ELSE
        LET position == portfolio.positions.val[symbol]
            cost_basis == position.avg_price * quantity
        IN  IF quantity > position.quantity
            THEN Result(s, "execute_trade", FALSE)
            ELSE Result([s EXCEPT
                    !.portfolio.positions =
                        IF quantity = position.quantity
                        THEN DictDel(@, symbol)
                        ELSE DictSet(@, symbol,
                                Position(position.quantity - quantity, position.avg_price,
                                         position.total_invested - cost_basis)),
                    !.portfolio.cash = @ + trade_amount,
                    !.portfolio.trade_count = @ + 1,
                    !.trades = Append(@, TradeRecord(symbol, "sell", quantity, current_price,
                                                     portfolio.cash + trade_amount))],
                 "execute_trade", TRUE)

\* the route posts a trade (quantity > 0, action buy or sell) and
\* execute_trade runs to `await self.get_stock_price(symbol)`
ExecuteTrade_Call ==
    /\ svc.trade.pc = "idle"
    /\ svc.trade_calls < MaxTrades
    /\ \E portfolio_id \in PortfolioIds, symbol \in Symbols,
          action \in {"buy", "sell"}, quantity \in Quantities :
        svc' = IF portfolio_id # "p1"
               THEN Result([svc EXCEPT !.trade_calls = @ + 1], "execute_trade", FALSE)
               ELSE [svc EXCEPT !.trade_calls = @ + 1,
                                !.trade = [pc |-> "price", symbol |-> symbol,
                                           action |-> action, quantity |-> quantity]]
    /\ UNCHANGED forecasting

\* the price arrives and execute_trade runs to its return
ExecuteTrade_Price ==
    /\ svc.trade.pc = "price"
    /\ \E current_price \in Prices :
        LET t == svc.trade
            s == [svc EXCEPT !.trade = NoCoroutine]
        IN  svc' = IF current_price = 0 THEN Result(s, "execute_trade", FALSE)
                   ELSE IF t.action = "buy"
                   THEN SimpleTrading_execute_buy(s, t.symbol, t.quantity, current_price)
                   ELSE SimpleTrading_execute_sell(s, t.symbol, t.quantity, current_price)
    /\ UNCHANGED forecasting

\* reset_portfolio(portfolio_id): no await, it runs in one piece; a
\* get_portfolio in flight keeps iterating the dict that was replaced
ResetPortfolio ==
    /\ \E portfolio_id \in PortfolioIds :
        svc' = IF portfolio_id # "p1"
               THEN Result(svc, "reset_portfolio", FALSE)
               ELSE Result([svc EXCEPT
                        !.portfolio = [svc.portfolio EXCEPT
                            !.cash = svc.portfolio.starting_cash,
                            !.positions = NewDict,
                            !.total_value = svc.portfolio.starting_cash,
                            !.trade_count = 0],
                        !.trades = <<>>,
                        !.get = IF svc.get.pc = "price" /\ svc.get.live
                                THEN [svc.get EXCEPT !.live = FALSE,
                                                     !.dict = svc.portfolio.positions]
                                ELSE svc.get],
                    "reset_portfolio", TRUE)
    /\ UNCHANGED forecasting

SimpleTradingNext ==
    \/ GetPortfolio_Call
    \/ GetPortfolio_Price
    \/ ExecuteTrade_Call
    \/ ExecuteTrade_Price
    \/ ResetPortfolio

SimpleTradingSpec == SimpleTradingInit /\ [][SimpleTradingNext]_vars

\* the total of the recorded trades of one action
RecordedAmount(action) ==
    SumSeq([i \in 1..Len(svc.trades) |->
        IF svc.trades[i].action = action THEN svc.trades[i].total_amount ELSE 0])

\* C25 (as claimed): under any interleaving of get_portfolio, execute_trade
\* and reset_portfolio the stored cash is starting_cash minus the recorded
\* buys plus the recorded sells, and trade_count is the number of recorded
\* trades: no trade is lost or undone by an overlapping get_portfolio.
C25_CashMatchesRecordedTrades ==
    /\ svc.portfolio.cash
          = svc.portfolio.starting_cash - RecordedAmount("buy") + RecordedAmount("sell")
    /\ svc.portfolio.trade_count = Len(svc.trades)

\* an execute_trade call returns in this step: after its price arrived, or
\* at once for an unknown portfolio
ExecuteTradeReturns ==
    \/ svc.trade.pc = "price" /\ svc'.trade.pc = "idle"
    \/ /\ svc.trade.pc = "idle" /\ svc'.trade.pc = "idle"
       /\ svc'.trade_calls = svc.trade_calls + 1

----------------------------------------------------------------------------
(* PaperTradingService (api/services/paper_trading.py): the portfolio and   *)
(* the holdings documents of one user who has created a portfolio.  Money   *)
(* is in cents.  Requests are served one at a time here.                    *)

MaxOrders == 3

\* MAX_POSITION_SIZE = 0.25, in percent
MAX_POSITION_SIZE == 25
PaperTrading_MIN_TRADE_AMOUNT == 1000

\* what _get_current_price returns; 0 stands for None
PaperPrices == {0, 400, 100000, 125000}

\* sum(f.values())
RECURSIVE SumSet(_)
SumSet(f) ==
    IF DOMAIN f = {} THEN 0
    ELSE LET x == CHOOSE y \in DOMAIN f : TRUE
         IN  f[x] + SumSet([y \in DOMAIN f \ {x} |-> f[y]])

PaperTradingInit ==
    /\ ForecastersAtRest
    /\ svc = [service |-> "paper_trading",
              portfolio |-> [total_value |-> STARTING_CASH, available_cash |-> STARTING_CASH,
                             invested_amount |-> 0, realized_pnl |-> 0, total_trades |-> 0,
                             winning_trades |-> 0, losing_trades |-> 0],
              holdings |-> EmptyDict,
              result |-> [op |-> "create_portfolio", success |-> TRUE]]

PaperTrading_execute_buy_order(s, symbol, quantity, current_price) ==
    LET portfolio == s.portfolio
        trade_amount == current_price * quantity
        existing == s.holdings[symbol]
        holding ==
            IF symbol \in DOMAIN s.holdings
            THEN [quantity |-> existing.quantity + quantity,
                  average_buy_price |-> (existing.total_invested + trade_amount)
                                            \div (existing.quantity + quantity),
                  total_invested |-> existing.total_invested + trade_amount,
                  current_value |-> current_price * (existing.quantity + quantity)]
            ELSE [quantity |-> quantity, average_buy_price |-> current_price,
                  total_invested |-> trade_amount, current_value |-> trade_amount]
    IN  IF \/ trade_amount > portfolio.available_cash
           \/ trade_amount < PaperTrading_MIN_TRADE_AMOUNT
           \/ trade_amount * 100 > portfolio.total_value * MAX_POSITION_SIZE
        THEN Result(s, "execute_trade", FALSE)
        ELSE Result([s EXCEPT
                !.holdings = (symbol :> holding) @@ s.holdings,
                !.portfolio.available_cash = @ - trade_amount,
                !.portfolio.invested_amount = @ + trade_amount,
                !.portfolio.total_trades = @ + 1],
             "execute_trade", TRUE)

PaperTrading_execute_sell_order(s, symbol, quantity, current_price) ==
    LET portfolio == s.portfolio
        trade_amount == current_price * quantity
    IN  IF symbol \notin DOMAIN s.holdings
        THEN Result(s, "execute_trade", FALSE)
        ELSE
        LET holding == s.holdings[symbol]
            cost_basis == holding.average_buy_price * quantity
            profit_loss == trade_amount - cost_basis
        IN  IF quantity > holding.quantity
            THEN Result(s, "execute_trade", FALSE)
            ELSE Result([s EXCEPT
                    !.holdings =
                        IF quantity = holding.quantity
                        THEN [x \in DOMAIN s.holdings \ {symbol} |-> s.holdings[x]]
                        ELSE [s.holdings EXCEPT ![symbol] =
                                [holding EXCEPT
                                    !.quantity = holding.quantity - quantity,
                                    !.total_invested = holding.total_invested - cost_basis,
                                    !.current_value =
                                        current_price * (holding.quantity - quantity)]],
                    !.portfolio.available_cash = @ + trade_amount,
                    !.portfolio.invested_amount = @ - cost_basis,
                    !.portfolio.realized_pnl = @ + profit_loss,
                    !.portfolio.total_trades = @ + 1,
                    !.portfolio.winning_trades = @ + (IF profit_loss > 0 THEN 1 ELSE 0),
                    !.portfolio.losing_trades = @ + (IF profit_loss < 0 THEN 1 ELSE 0)],
                 "execute_trade", TRUE)

\* execute_trade(user_id, symbol, trade_type, quantity) from the route,
\* which lets through quantity > 0
PaperTrading_ExecuteTrade ==
    /\ svc.portfolio.total_trades < MaxOrders
    /\ \E symbol \in Symbols, trade_type \in {"buy", "sell"},
          quantity \in Quantities, current_price \in PaperPrices :
        svc' = IF current_price = 0 THEN Result(svc, "execute_trade", FALSE)
               ELSE IF trade_type = "buy"
               THEN PaperTrading_execute_buy_order(svc, symbol, quantity, current_price)
               ELSE PaperTrading_execute_sell_order(svc, symbol, quantity, current_price)
    /\ UNCHANGED forecasting

\* get_portfolio(user_id): the holdings whose price is known are revalued
\* and the portfolio's total_value and invested_amount recomputed from them
PaperTrading_GetPortfolio ==
    /\ \E price \in [DOMAIN svc.holdings -> PaperPrices] :
        LET priced == {x \in DOMAIN svc.holdings : price[x] # 0}
            value == [x \in DOMAIN svc.holdings |-> svc.holdings[x].quantity * price[x]]
        IN  svc' = Result([svc EXCEPT
                !.holdings = [x \in DOMAIN svc.holdings |->
                    IF x \in priced
                    THEN [svc.holdings[x] EXCEPT !.current_value = value[x]]
                    ELSE svc.holdings[x]],
                !.portfolio.total_value =
                    svc.portfolio.available_cash
                        + SumSet([x \in DOMAIN svc.holdings |->
                                    IF x \in priced THEN value[x] ELSE 0]),
                !.portfolio.invested_amount =
                    SumSet([x \in DOMAIN svc.holdings |->
                                IF x \in priced THEN svc.holdings[x].total_invested ELSE 0])],
             "get_portfolio", TRUE)
    /\ UNCHANGED forecasting

PaperTradingNext ==
    \/ PaperTrading_ExecuteTrade
    \/ PaperTrading_GetPortfolio

PaperTradingSpec == PaperTradingInit /\ [][PaperTradingNext]_vars

\* C27 (as claimed): after any sequence of buys the amount invested in one
\* symbol is at most MAX_POSITION_SIZE (25%) of the portfolio's total value,
\* also when the same symbol is bought again and again.
C27_PositionSizeLimit ==
    \A x \in DOMAIN svc.holdings :
        svc.holdings[x].total_invested * 100 <= svc.portfolio.total_value * MAX_POSITION_SIZE

----------------------------------------------------------------------------
(* XPService (backend/api/services/xp_service.py): the users document of    *)
(* one registered user (its _id a string, as registration stores it), the   *)
(* xp_activities collection, and two requests in flight.  Every awaited     *)
(* database call is one step.  Days are numbered; `calls` counts the        *)
(* requests started, to bound the run.                                      *)

MaxCalls == 3
LastDay == 2

Procs == {1, 2}
Roles == {"beginner", "casual", "paper_trader", "admin"}

\* XP_REWARDS of the activities awarded here; a learning module carries its
\* own amount
DAILY_LOGIN_XP == 10
Awards == {[activity_type |-> "quiz_passed", xp_amount |-> 100],
           [activity_type |-> "learning_module_completed", xp_amount |-> 400]}

XP_calculate_role_from_xp(total_xp) ==
    IF total_xp >= 500 THEN "paper_trader"
    ELSE IF total_xp >= 100 THEN "casual"
    ELSE "beginner"

Idle == [pc |-> "idle"]

\* a user as registration leaves it: no XP, the role chosen at registration
XPInit ==
    /\ ForecastersAtRest
    /\ \E role \in Roles :
        svc = [service |-> "xp",
               user |-> [total_xp |-> 0, role |-> role, last_daily_checkin_date |-> 0,
                         role_progression_history |-> <<>>],
               xp_activities |-> <<>>,
               today |-> 1,
               calls |-> 0,
               proc |-> [p \in Procs |-> Idle],
               result |-> [p \in Procs |-> [op |-> "none"]]]

\* track_login up to its call of award_xp: the user is read and the date of
\* the last check-in compared with today
TrackLogin_Find ==
    /\ svc.calls < MaxCalls
    /\ \E p \in Procs :
        /\ svc.proc[p].pc = "idle"
        /\ svc' = IF svc.user.last_daily_checkin_date >= svc.today
                  THEN [svc EXCEPT !.calls = @ + 1,
                                   !.result[p] = [op |-> "track_login", success |-> FALSE,
                                                  xp_awarded |-> 0,
                                                  already_checked_in_today |-> TRUE]]
                  ELSE [svc EXCEPT !.calls = @ + 1,
                                   !.proc[p] = [pc |-> "award_find", op |-> "track_login",
                                                activity_type |-> "daily_login",
                                                xp_amount |-> DAILY_LOGIN_XP]]
    /\ UNCHANGED forecasting

\* a route calls award_xp for an activity
AwardXP_Call ==
    /\ svc.calls < MaxCalls
    /\ \E p \in Procs, a \in Awards :
        /\ svc.proc[p].pc = "idle"
        /\ svc' = [svc EXCEPT !.calls = @ + 1,
                              !.proc[p] = [pc |-> "award_find", op |-> "award_xp",
                                           activity_type |-> a.activity_type,
                                           xp_amount |-> a.xp_amount]]
    /\ UNCHANGED forecasting

\* award_xp reads the user and computes the new total and the new role
AwardXP_Find ==
    /\ \E p \in Procs :
        /\ svc.proc[p].pc = "award_find"
        /\ LET c == svc.proc[p]
               new_xp_total == svc.user.total_xp + c.xp_amount
               new_role == XP_calculate_role_from_xp(new_xp_total)
           IN  svc' = [svc EXCEPT !.proc[p] =
                    [pc |-> "award_insert", op |-> c.op, activity_type |-> c.activity_type,
                     xp_amount |-> c.xp_amount, current_xp |-> svc.user.total_xp,
                     current_role |-> svc.user.role, new_xp_total |-> new_xp_total,
                     new_role |-> new_role, role_changed |-> new_role # svc.user.role]]
    /\ UNCHANGED forecasting

\* xp_activities_collection.insert_one(activity_record)
AwardXP_Insert ==
    /\ \E p \in Procs :
        /\ svc.proc[p].pc = "award_insert"
        /\ svc' = [svc EXCEPT
                !.xp_activities = Append(@, [activity_type |-> svc.proc[p].activity_type,
                                             xp_earned |-> svc.proc[p].xp_amount,
                                             earned_at |-> svc.today]),
                !.proc[p].pc = "award_update"]
    /\ UNCHANGED forecasting

\* users_collection.update_one of award_xp, and its return
AwardXP_Update ==
    /\ \E p \in Procs :
        /\ svc.proc[p].pc = "award_update"
        /\ LET c == svc.proc[p]
               result == [op |-> c.op, success |-> TRUE, xp_awarded |-> c.xp_amount,
                          already_checked_in_today |-> FALSE]
           IN  svc' = [svc EXCEPT
                !.user.total_xp = c.new_xp_total,
                !.user.role = IF c.role_changed THEN c.new_role ELSE @,
                !.user.role_progression_history =
                    IF c.role_changed
                    THEN Append(@, [from_role |-> c.current_role, to_role |-> c.new_role,
                                    xp_at_change |-> c.new_xp_total])
                    ELSE @,
                !.proc[p] = IF c.op = "track_login"
                            THEN [pc |-> "checkin_update", op |-> c.op] ELSE Idle,
                !.result[p] = IF c.op = "track_login" THEN @ ELSE result]
    /\ UNCHANGED forecasting

\* track_login stores last_daily_checkin_date and returns
TrackLogin_Update ==
    /\ \E p \in Procs :
        /\ svc.proc[p].pc = "checkin_update"
        /\ svc' = [svc EXCEPT
                !.user.last_daily_checkin_date = svc.today,
                !.proc[p] = Idle,
                !.result[p] = [op |-> "track_login", success |-> TRUE,
                               xp_awarded |-> DAILY_LOGIN_XP,
                               already_checked_in_today |-> FALSE]]
    /\ UNCHANGED forecasting

\* midnight
NextDay ==
    /\ svc.today < LastDay
    /\ svc' = [svc EXCEPT !.today = @ + 1]
    /\ UNCHANGED forecasting

XPNext ==
    \/ TrackLogin_Find
    \/ AwardXP_Call
    \/ AwardXP_Find
    \/ AwardXP_Insert
    \/ AwardXP_Update
    \/ TrackLogin_Update
    \/ NextDay

XPSpec == XPInit /\ [][XPNext]_vars

\* C28 (as claimed): the daily-login XP is awarded at most once per day,
\* also when two track_login calls of the user overlap: no day has two
\* daily_login awards among the recorded activities.
C28_DailyLoginOncePerDay ==
    \A i, j \in 1..Len(svc.xp_activities) :
        (/\ i # j
         /\ svc.xp_activities[i].activity_type = "daily_login"
         /\ svc.xp_activities[j].activity_type = "daily_login") =>
            svc.xp_activities[i].earned_at # svc.xp_activities[j].earned_at

RoleRank(role) ==
    CASE role = "beginner" -> 1 [] role = "casual" -> 2 [] role = "paper_trader" -> 3
      [] OTHER -> 4

\* C30 (as claimed): an XP award never lowers the stored role along
\* beginner -> casual -> paper_trader and never changes the role admin.
C30_RoleOnlyMovesUp ==
    [][/\ (svc.user.role = "admin") => (svc'.user.role = "admin")
       /\ (svc.user.role # "admin") =>
            /\ svc'.user.role # "admin"
            /\ RoleRank(svc'.user.role) >= RoleRank(svc.user.role)]_vars

----------------------------------------------------------------------------
(* The websocket ConnectionManager (api/websocket/manager.py) and the       *)
(* endpoint coroutines of routes/websocket.py, one per open socket.  A      *)
(* manager call and the send that ends it are one step; whether the send    *)
(* fails is drawn.                                                          *)

MaxSockets == 2

Sockets == 1..MaxSockets
UserIds == {1, 2}
NoUser == 0

WsInit ==
    /\ ForecastersAtRest
    /\ svc = [service |-> "websocket",
              endpoint |-> [ws \in Sockets |-> NoUser],
              active_connections |-> EmptyDict,
              user_subscriptions |-> EmptyDict,
              stock_watchers |-> EmptyDict]

\* d without key k
Without(d, k) == [x \in DOMAIN d \ {k} |-> d[x]]

\* self.stock_watchers[symbol].discard(user_id), and the entry deleted when
\* its set is left empty
DiscardWatcher(watchers, symbol, user_id) ==
    IF symbol \notin DOMAIN watchers THEN watchers
    ELSE IF watchers[symbol] \ {user_id} = {} THEN Without(watchers, symbol)
    ELSE [watchers EXCEPT ![symbol] = @ \ {user_id}]

RECURSIVE DiscardWatcherOf(_, _, _)
DiscardWatcherOf(watchers, symbols, user_id) ==
    IF symbols = {} THEN watchers
    ELSE LET x == CHOOSE y \in symbols : TRUE
         IN  DiscardWatcherOf(DiscardWatcher(watchers, x, user_id), symbols \ {x}, user_id)

ConnectionManager_disconnect(m, user_id) ==
    [m EXCEPT
        !.active_connections = Without(@, user_id),
        !.stock_watchers =
            IF user_id \in DOMAIN m.user_subscriptions
            THEN DiscardWatcherOf(@, m.user_subscriptions[user_id], user_id)
            ELSE @,
        !.user_subscriptions = Without(@, user_id)]

\* send_personal_message: a send that fails disconnects the user
ConnectionManager_send_personal_message(m, user_id, sent) ==
    IF user_id \in DOMAIN m.active_connections /\ ~sent
    THEN ConnectionManager_disconnect(m, user_id)
    ELSE m

\* a client opens /ws/{user_id}: manager.connect(websocket, user_id)
WebsocketConnect ==
    /\ \E ws \in Sockets, user_id \in UserIds, sent \in BOOLEAN :
        /\ svc.endpoint[ws] = NoUser
        /\ svc' = ConnectionManager_send_personal_message(
                    [svc EXCEPT
                        !.endpoint[ws] = user_id,
                        !.active_connections = (user_id :> ws) @@ Without(@, user_id),
                        !.user_subscriptions = (user_id :> {}) @@ Without(@, user_id)],
                    user_id, sent)
    /\ UNCHANGED forecasting

\* the endpoint receives {"type": "subscribe", "symbol": ...}
SubscribeToStock ==
    /\ \E ws \in Sockets, symbol \in Symbols, sent \in BOOLEAN :
        /\ svc.endpoint[ws] # NoUser
        /\ LET user_id == svc.endpoint[ws]
               mine == IF user_id \in DOMAIN svc.user_subscriptions
                       THEN svc.user_subscriptions[user_id] ELSE {}
               watching == IF symbol \in DOMAIN svc.stock_watchers
                           THEN svc.stock_watchers[symbol] ELSE {}
           IN  svc' = ConnectionManager_send_personal_message(
                    [svc EXCEPT
                        !.user_subscriptions =
                            (user_id :> (mine \cup {symbol})) @@ Without(@, user_id),
                        !.stock_watchers =
                            (symbol :> (watching \cup {user_id})) @@ Without(@, symbol)],
                    user_id, sent)
    /\ UNCHANGED forecasting

\* the endpoint receives {"type": "unsubscribe", "symbol": ...}
UnsubscribeFromStock ==
    /\ \E ws \in Sockets, symbol \in Symbols, sent \in BOOLEAN :
        /\ svc.endpoint[ws] # NoUser
        /\ LET user_id == svc.endpoint[ws]
           IN  svc' = ConnectionManager_send_personal_message(
                    [svc EXCEPT
                        !.user_subscriptions =
                            IF user_id \in DOMAIN @
                            THEN [@ EXCEPT ![user_id] = @ \ {symbol}] ELSE @,
                        !.stock_watchers = DiscardWatcher(@, symbol, user_id)],
                    user_id, sent)
    /\ UNCHANGED forecasting

\* the client closes the socket: WebSocketDisconnect ends the endpoint,
\* which calls manager.disconnect(user_id)
WebsocketDisconnect ==
    /\ \E ws \in Sockets :
        /\ svc.endpoint[ws] # NoUser
        /\ svc' = ConnectionManager_disconnect([svc EXCEPT !.endpoint[ws] = NoUser],
                                               svc.endpoint[ws])
    /\ UNCHANGED forecasting

RECURSIVE DisconnectAll(_, _)
DisconnectAll(m, users) ==
    IF users = {} THEN m
    ELSE LET u == CHOOSE y \in users : TRUE
         IN  DisconnectAll(ConnectionManager_disconnect(m, u), users \ {u})

\* broadcast_stock_update(symbol, stock_data): the sends to some of the
\* watchers fail
BroadcastStockUpdate ==
    /\ \E symbol \in DOMAIN svc.stock_watchers :
        \E failed \in SUBSET (svc.stock_watchers[symbol] \cap DOMAIN svc.active_connections) :
            svc' = DisconnectAll(svc, failed)
    /\ UNCHANGED forecasting

WebsocketNext ==
    \/ WebsocketConnect
    \/ SubscribeToStock
    \/ UnsubscribeFromStock
    \/ WebsocketDisconnect
    \/ BroadcastStockUpdate

WebsocketSpec == WsInit /\ [][WebsocketNext]_vars

\* C29 (as claimed): the two subscription indexes agree: user u is in
\* stock_watchers[s] exactly when s is in user_subscriptions[u], and no
\* symbol is mapped to an empty set of watchers.
C29_SubscriptionIndexesAgree ==
    /\ \A u \in UserIds, x \in Symbols :
        (x \in DOMAIN svc.stock_watchers /\ u \in svc.stock_watchers[x])
            <=> (u \in DOMAIN svc.user_subscriptions /\ x \in svc.user_subscriptions[u])
    /\ \A x \in DOMAIN svc.stock_watchers : svc.stock_watchers[x] # {}

====
